---- MODULE Spec2Model ----
(***************************************************************************)
(* Model of the order dashboard endpoint of BlueBoxx_backend               *)
(* (src/src/controllers/order.dashboard.controller.js, getDashboardSeries).*)
(*                                                                         *)
(* Time is counted in whole hours since 1970-01-01T00:00Z: every boundary  *)
(* the controller computes (local midnights, DST transitions of            *)
(* America/Edmonton) lies on a whole hour, so "one millisecond before"     *)
(* a boundary is modelled by the last whole hour before it.                *)
(*                                                                         *)
(* Text the code inspects character by character (date keys, status,       *)
(* the site parameter) is a sequence of one-character strings; an absent   *)
(* or empty text is <<>>.  An optional value of another kind is <<>>       *)
(* (absent/null) or <<v>>.                                                 *)
(***************************************************************************)
EXTENDS Integers, Sequences, FiniteSets, TLC

VARIABLES
    now,      \* the current instant ($$NOW), in hours
    sites,    \* the Site collection
    orders,   \* the Order collection (a sequence of documents)
    req,      \* req.query of the request being served
    pc,       \* where the handler stands: validate, resolve, aggregate, done
    siteDoc,  \* the resolved site document, <<>> before resolution
    plan,     \* startExpr / endExpr as built by the handler
    agg,      \* the document returned by Order.aggregate, <<>> before it
    resp,     \* the response sent
    calls,    \* history: the store calls made and responses sent, in order
    fault,    \* history: <<>> or <<cause>> of the rejection of a store call
    waiting   \* the other requests in flight, each with its own locals

vars == <<now, sites, orders, req, pc, siteDoc, plan, agg, resp, calls, fault, waiting>>

(***************************************************************************)
(* Text helpers                                                            *)
(***************************************************************************)
DigitChars == <<"0", "1", "2", "3", "4", "5", "6", "7", "8", "9">>

UpperChars == <<"A", "B", "C", "D", "E", "F", "G", "H", "I", "J", "K", "L", "M",
                "N", "O", "P", "Q", "R", "S", "T", "U", "V", "W", "X", "Y", "Z">>

LowerChars == <<"a", "b", "c", "d", "e", "f", "g", "h", "i", "j", "k", "l", "m",
                "n", "o", "p", "q", "r", "s", "t", "u", "v", "w", "x", "y", "z">>

Range(s) == {s[i] : i \in DOMAIN s}

IsDigit(c) == c \in Range(DigitChars)

DigitVal(c) == (CHOOSE i \in DOMAIN DigitChars : DigitChars[i] = c) - 1

\* Number("0310") for a text of decimal digits.
RECURSIVE Number(_)
Number(s) ==
    IF s = <<>> THEN 0
    ELSE Number(SubSeq(s, 1, Len(s) - 1)) * 10 + DigitVal(s[Len(s)])

\* String(n).padStart(2, '0') for n >= 0.
RECURSIVE Digits(_)
Digits(n) ==
    IF n < 10 THEN <<DigitChars[n + 1]>>
    ELSE Digits(n \div 10) \o <<DigitChars[(n % 10) + 1]>>

PadStart2(n) == IF n < 10 THEN <<"0">> \o Digits(n) ELSE Digits(n)

PadStart4(n) ==
    IF n < 10 THEN <<"0", "0", "0">> \o Digits(n)
    ELSE IF n < 100 THEN <<"0", "0">> \o Digits(n)
    ELSE IF n < 1000 THEN <<"0">> \o Digits(n)
    ELSE Digits(n)

\* s.split('-')
RECURSIVE SplitDash(_)
SplitDash(s) ==
    IF \A i \in DOMAIN s : s[i] # "-" THEN <<s>>
    ELSE LET i == CHOOSE k \in DOMAIN s :
                       s[k] = "-" /\ \A j \in 1..(k - 1) : s[j] # "-"
         IN  <<SubSeq(s, 1, i - 1)>> \o SplitDash(SubSeq(s, i + 1, Len(s)))

ToLowerChar(c) ==
    IF c \in Range(UpperChars)
    THEN LowerChars[CHOOSE i \in DOMAIN UpperChars : UpperChars[i] = c]
    ELSE c

\* $toLower / String.prototype.toLowerCase on ASCII text.
ToLower(s) == [i \in DOMAIN s |-> ToLowerChar(s[i])]

(***************************************************************************)
(* Calendar arithmetic of Date.UTC / getUTC* (proleptic Gregorian).        *)
(***************************************************************************)
HoursPerDay == 24

\* Day number (days since 1970-01-01) of year y, month index m0 (0 = January,
\* any integer: Date.UTC carries months over), day of month d (any integer).
MakeDay(y, m0, d) ==
    LET ym  == y + (m0 \div 12)
        mn  == (m0 % 12) + 1
        yy  == IF mn <= 2 THEN ym - 1 ELSE ym
        era == yy \div 400
        yoe == yy - era * 400
        mp  == IF mn > 2 THEN mn - 3 ELSE mn + 9
        doy == ((153 * mp + 2) \div 5) + d - 1
        doe == yoe * 365 + (yoe \div 4) - (yoe \div 100) + doy
    IN  era * 146097 + doe - 719468

\* getUTCFullYear / getUTCMonth + 1 / getUTCDate of a day number.
CivilOfDay(z) ==
    LET zz  == z + 719468
        era == zz \div 146097
        doe == zz - era * 146097
        yoe == (doe - (doe \div 1460) + (doe \div 36524) - (doe \div 146096)) \div 365
        doy == doe - (365 * yoe + (yoe \div 4) - (yoe \div 100))
        mp  == (5 * doy + 2) \div 153
        dd  == doy - ((153 * mp + 2) \div 5) + 1
        mm  == IF mp < 10 THEN mp + 3 ELSE mp - 9
    IN  [y |-> (yoe + era * 400) + (IF mm <= 2 THEN 1 ELSE 0), m |-> mm, d |-> dd]

\* 0 = Sunday ... 6 = Saturday (1970-01-01 was a Thursday).
WeekdayOfDay(z) == (z + 4) % 7

(***************************************************************************)
(* The time zone the controller fixes: America/Edmonton.                   *)
(* Mountain Standard Time is UTC-7; daylight time (UTC-6) runs from 02:00  *)
(* local standard time on the second Sunday of March to 02:00 local        *)
(* daylight time on the first Sunday of November.                          *)
(***************************************************************************)
CANADA_TZ == "America/Edmonton"

StdOffset == -7

DstOffset == -6

FirstSundayFrom(y, m, d) ==
    LET z == MakeDay(y, m - 1, d)
    IN  z + ((7 - WeekdayOfDay(z)) % 7)

\* UTC hour at which daylight time starts / ends in year y.
DstStartUtc(y) == FirstSundayFrom(y, 3, 8) * HoursPerDay + 2 - StdOffset

DstEndUtc(y) == FirstSundayFrom(y, 11, 1) * HoursPerDay + 2 - DstOffset

\* Offset (hours to add to UTC) in force at UTC hour t.
TzOffset(t) ==
    LET y == CivilOfDay(t \div HoursPerDay).y
    IN  IF DstStartUtc(y) <= t /\ t < DstEndUtc(y) THEN DstOffset ELSE StdOffset

\* Local wall-clock hour count of UTC hour t.
ToLocal(t) == t + TzOffset(t)

\* UTC hour of a local wall-clock hour count w: the daylight reading when it
\* exists (also on the repeated hour), else the standard one.
FromLocal(w) ==
    IF TzOffset(w - DstOffset) = DstOffset THEN w - DstOffset ELSE w - StdOffset

(***************************************************************************)
(* MongoDB date expressions used by the pipeline, with timezone CANADA_TZ. *)
(***************************************************************************)
\* { $dateTrunc: { date, unit: 'day', timezone } }
DateTruncDay(t) == FromLocal((ToLocal(t) \div HoursPerDay) * HoursPerDay)

\* { $dateAdd: { startDate, unit: 'day', amount, timezone } }
DateAddDays(t, amount) == FromLocal(ToLocal(t) + amount * HoursPerDay)

\* { $dateFromParts: { year, month, day, hour: 0, ..., timezone } }
DateFromParts(y, m, d) == FromLocal(MakeDay(y, m - 1, d) * HoursPerDay)

\* "YYYY-MM-DD" of a calendar date.
FormatYMD(c) == PadStart4(c.y) \o <<"-">> \o PadStart2(c.m) \o <<"-">> \o PadStart2(c.d)

\* { $dateToString: { format: '%Y-%m-%d', date, timezone } }
DateToString(t) == FormatYMD(CivilOfDay(ToLocal(t) \div HoursPerDay))

(***************************************************************************)
(* DST-safe bucket helpers of the controller.                              *)
(***************************************************************************)
WeekdayNames == <<"Sun", "Mon", "Tue", "Wed", "Thu", "Fri", "Sat">>

MonthNames == <<"Jan", "Feb", "Mar", "Apr", "May", "Jun",
                "Jul", "Aug", "Sep", "Oct", "Nov", "Dec">>

\* keyFmt.format(date): en-CA year-month-day in CANADA_TZ.
keyFmt(t) == FormatYMD(CivilOfDay(ToLocal(t) \div HoursPerDay))

\* weekdayFmt.format(date)
weekdayFmt(t) == WeekdayNames[WeekdayOfDay(ToLocal(t) \div HoursPerDay) + 1]

\* monthDayFmt.format(date), e.g. "Mar 09"
monthDayFmt(t) ==
    LET c == CivilOfDay(ToLocal(t) \div HoursPerDay)
    IN  MonthNames[c.m] \o " " \o DigitChars[(c.d \div 10) + 1] \o DigitChars[(c.d % 10) + 1]

parseKey(key) ==
    LET p == SplitDash(key)
    IN  [y |-> Number(p[1]), m |-> Number(p[2]), d |-> Number(p[3])]

keyToUTCNoonDate(k) == MakeDay(k.y, k.m - 1, k.d) * HoursPerDay + 12

nextKey(k) == CivilOfDay(MakeDay(k.y, k.m - 1, k.d) + 1)

cmpKeys(a, b) ==
    IF a.y # b.y THEN a.y - b.y
    ELSE IF a.m # b.m THEN a.m - b.m
    ELSE a.d - b.d

keyString(k) == Digits(k.y) \o <<"-">> \o PadStart2(k.m) \o <<"-">> \o PadStart2(k.d)

\* The while loop of buildDayBucketsDSTSafe, from cur through end.
RECURSIVE BucketLoop(_, _, _)
BucketLoop(cur, end, forWeek) ==
    IF cmpKeys(cur, end) <= 0
    THEN <<[key   |-> keyString(cur),
            label |-> IF forWeek THEN weekdayFmt(keyToUTCNoonDate(cur))
                                 ELSE monthDayFmt(keyToUTCNoonDate(cur))]>>
         \o BucketLoop(nextKey(cur), end, forWeek)
    ELSE <<>>

\* Mutant: the last bucket is the local day of endUtc itself.
buildDayBucketsThroughEnd(startUtc, endUtc, forWeek) ==
    IF startUtc = <<>> \/ endUtc = <<>> THEN <<>>
    ELSE BucketLoop(parseKey(keyFmt(startUtc[1])),
                    parseKey(keyFmt(endUtc[1])),
                    forWeek)

\* startUtc, endUtc: <<>> (null) or <<instant>>.
buildDayBucketsDSTSafe(startUtc, endUtc, forWeek) ==
    IF startUtc = <<>> \/ endUtc = <<>> THEN <<>>
    ELSE BucketLoop(parseKey(keyFmt(startUtc[1])),
                    parseKey(keyFmt(endUtc[1] - 1)),
                    forWeek)

(***************************************************************************)
(* Documents.                                                              *)
(*   Site:  [_id, slug, name]          name is <<>> or <<text>>            *)
(*   Order: [site, createdAt, status, totalCents, phone, userEmail, items] *)
(*          status is a text (<<>> when absent); totalCents, phone         *)
(*          (dropoff.phone) and userEmail are <<>> or <<v>>; items is a    *)
(*          sequence of item names, each <<>> or <<name>>.                 *)
(***************************************************************************)
HexChars == Range(DigitChars) \cup {"a", "b", "c", "d", "e", "f", "A", "B", "C", "D", "E", "F"}

\* Mutant: any text of hexadecimal digits, whatever its length.
isValidObjectIdStringAnyLength(s) ==
    \A i \in DOMAIN s : s[i] \in HexChars

isValidObjectIdString(s) ==
    /\ Len(s) = 24
    /\ \A i \in DOMAIN s : s[i] \in HexChars

\* new mongoose.Types.ObjectId(s): the id, written in lower case.
ObjectId(s) == ToLower(s)

\* Site.findById(id).lean(): <<>> (null) or <<doc>>.
FindSiteById(id) ==
    IF \E d \in sites : d._id = id
    THEN <<CHOOSE d \in sites : d._id = id>>
    ELSE <<>>

\* Site.findOne({ slug }).lean()
FindSiteBySlug(slug) ==
    IF \E d \in sites : d.slug = slug
    THEN <<CHOOSE d \in sites : d.slug = slug>>
    ELSE <<>>

IfNull(x, dflt) == IF x = <<>> THEN dflt ELSE x[1]

(***************************************************************************)
(* Request validation and window planning (synchronous part).              *)
(***************************************************************************)
MAX_CUSTOM_DAYS == 62

Modes == {"week", "month", "custom"}

\* /^\d{4}-\d{2}-\d{2}$/.test(s)
IsYMD(s) ==
    /\ Len(s) = 10
    /\ \A i \in {1, 2, 3, 4, 6, 7, 9, 10} : IsDigit(s[i])
    /\ s[5] = "-" /\ s[8] = "-"

\* new Date(`${s}T00:00:00.000Z`) in days since the epoch: <<>> is an
\* Invalid Date.  The ISO parser of the runtime takes months 1..12 and days
\* 1..31 and lets the day run over into the next month.
DateOfISO(s) ==
    LET k == parseKey(s)
    IN  IF k.m \in 1..12 /\ k.d \in 1..31 THEN <<MakeDay(k.y, k.m - 1, k.d)>> ELSE <<>>

\* The end date after the clamp "to ~2 months".
ClampEnd(startStr, endStr) ==
    LET startUtcClamp == DateOfISO(startStr)
        endUtcClamp   == DateOfISO(endStr)
    IN  IF startUtcClamp = <<>> \/ endUtcClamp = <<>> THEN endStr
        ELSE LET diffDays == (endUtcClamp[1] - startUtcClamp[1]) + 1
             IN  IF diffDays > MAX_CUSTOM_DAYS
                 THEN FormatYMD(CivilOfDay(startUtcClamp[1] + (MAX_CUSTOM_DAYS - 1)))
                 ELSE endStr

\* startExpr / endExpr, kept as expressions: the store evaluates them.
PlanTrailing(mode) ==
    [kind |-> "trailing", lookbackDays |-> IF mode = "week" THEN 6 ELSE 29]

PlanCustom(startStr, endStr) ==
    [kind |-> "custom", s |-> parseKey(startStr), e |-> parseKey(ClampEnd(startStr, endStr))]

todayStartInEdmonton(t) == DateTruncDay(t)

\* The value of startExpr when the store evaluates it at instant t.
EvalStart(p, t) ==
    IF p.kind = "trailing"
    THEN DateAddDays(todayStartInEdmonton(t), -p.lookbackDays)
    ELSE DateFromParts(p.s.y, p.s.m, p.s.d)

\* The value of endExpr when the store evaluates it at instant t.
EvalEnd(p, t) ==
    IF p.kind = "trailing"
    THEN DateAddDays(todayStartInEdmonton(t), 1)
    ELSE DateAddDays(DateFromParts(p.e.y, p.e.m, p.e.d), 1)

(***************************************************************************)
(* The aggregation pipeline.                                               *)
(***************************************************************************)
AWAITING == <<"a", "w", "a", "i", "t", "i", "n", "g", "_", "p", "a", "y", "m", "e", "n", "t">>

\* Mutant: the status is compared as written, without $toLower.
MatchOrderCaseSensitive(o, siteId, startT, endT) ==
    /\ o.site = siteId
    /\ o.createdAt >= startT
    /\ o.createdAt < endT
    /\ o.status # AWAITING

\* Mutant: the end of the window is compared with $lte.
MatchOrderClosedEnd(o, siteId, startT, endT) ==
    /\ o.site = siteId
    /\ o.createdAt >= startT
    /\ o.createdAt <= endT
    /\ ToLower(o.status) # AWAITING

\* The two $match stages.
MatchOrder(o, siteId, startT, endT) ==
    /\ o.site = siteId
    /\ o.createdAt >= startT
    /\ o.createdAt < endT
    /\ ToLower(o.status) # AWAITING

\* Mutant: the email is preferred to the phone.
customerIdExprEmailFirst(o) == IF o.userEmail # <<>> THEN o.userEmail ELSE o.phone

\* prefer dropoff.phone, else userEmail: <<>> when the order has neither.
customerIdExpr(o) == IF o.phone # <<>> THEN o.phone ELSE o.userEmail

\* Mutant: $dateToString without the timezone (the UTC date).
dayKeyOfUtc(o) == FormatYMD(CivilOfDay(o.createdAt \div HoursPerDay))

\* $addFields
dayKeyOf(o) == DateToString(o.createdAt)

RECURSIVE SumCents(_)
SumCents(docs) ==
    IF docs = <<>> THEN 0
    ELSE IfNull(docs[1].totalCents, 0) + SumCents(Tail(docs))

\* $addToSet: '$customerId' (an order without the field adds nothing).
CustomerSet(docs) ==
    {customerIdExpr(docs[i])[1] : i \in {j \in DOMAIN docs : customerIdExpr(docs[j]) # <<>>}}

\* Item names of one order: $map over items of $ifNull: ['$$it.name', ''].
ItemNames(o) == {IfNull(o.items[i], "") : i \in DOMAIN o.items}

\* One row of the perDay facet.
PerDayRow(k, docs) ==
    LET g == SelectSeq(docs, LAMBDA o : dayKeyOf(o) = k)
    IN  [dayKey |-> k, orders |-> Len(g), revenueCents |-> SumCents(g),
         customers |-> Cardinality(CustomerSet(g))]

PerDayRows(docs) == {PerDayRow(k, docs) : k \in {dayKeyOf(docs[i]) : i \in DOMAIN docs}}

\* Mutant: the window's customers counted as the sum of the days' counts.
TotalsFacetSummingDays(docs) ==
    IF docs = <<>> THEN <<>>
    ELSE <<[orders |-> Len(docs), revenueCents |-> SumCents(docs),
            customersUnique |->
                LET rows == PerDayRows(docs)
                    RECURSIVE Add(_)
                    Add(R) == IF R = {} THEN 0
                              ELSE LET r == CHOOSE x \in R : TRUE
                                   IN  r.customers + Add(R \ {r})
                IN  Add(rows),
            menuUnique |-> Cardinality(UNION {ItemNames(docs[i]) : i \in DOMAIN docs})]>>

\* Mutant: menuUnique counts the items, not their distinct names.
RECURSIVE CountItems(_)
CountItems(docs) == IF docs = <<>> THEN 0 ELSE Len(docs[1].items) + CountItems(Tail(docs))

TotalsFacetCountingItems(docs) ==
    IF docs = <<>> THEN <<>>
    ELSE <<[orders |-> Len(docs), revenueCents |-> SumCents(docs),
            customersUnique |-> Cardinality(CustomerSet(docs)),
            menuUnique |-> CountItems(docs)]>>

\* The totals facet: no row when nothing matched.
TotalsFacet(docs) ==
    IF docs = <<>> THEN <<>>
    ELSE <<[orders |-> Len(docs), revenueCents |-> SumCents(docs),
            customersUnique |-> Cardinality(CustomerSet(docs)),
            menuUnique |-> Cardinality(UNION {ItemNames(docs[i]) : i \in DOMAIN docs})]>>

\* The windowEcho facet: $limit 1 then $project of startExpr / endExpr.
WindowEchoFacet(docs, startT, endT) ==
    IF docs = <<>> THEN <<>> ELSE <<[start |-> <<startT>>, end |-> <<endT>>]>>

\* Every order in which a set of rows can come back.
Orderings(S) == {p \in [1..Cardinality(S) -> S] : Range(p) = S}

\* The documents of docs that pass the two $match stages.
Matched(docs, siteId, p, t) ==
    SelectSeq(docs, LAMBDA o : MatchOrder(o, siteId, EvalStart(p, t), EvalEnd(p, t)))

\* Mutant: the totals facet runs over the orders of the site, before the
\* $match of the window and of the status.
AggregateResultsTotalsBeforeMatch(docs, siteId, p, t) ==
    LET m == Matched(docs, siteId, p, t)
    IN  {[perDay     |-> rows,
          totals     |-> TotalsFacet(SelectSeq(docs, LAMBDA o : o.site = siteId)),
          windowEcho |-> WindowEchoFacet(m, EvalStart(p, t), EvalEnd(p, t))]
         : rows \in Orderings(PerDayRows(m))}

\* The documents Order.aggregate(pipeline) can return over the collection
\* docs (one per order in which the perDay rows may come back).
AggregateResults(docs, siteId, p, t) ==
    LET m == Matched(docs, siteId, p, t)
    IN  {[perDay     |-> rows,
          totals     |-> TotalsFacet(m),
          windowEcho |-> WindowEchoFacet(m, EvalStart(p, t), EvalEnd(p, t))]
         : rows \in Orderings(PerDayRows(m))}

(***************************************************************************)
(* Assembling the response.                                                *)
(***************************************************************************)
\* Math.round((cents / 100) * 100) / 100, as a decimal with two places.
ToCurrency(cents) == [whole |-> cents \div 100, hundredths |-> cents % 100]

\* byKey.get(k): <<>> (undefined) or <<row>>; a later row of a key wins.
ByKeyGet(perDay, k) ==
    LET hits == {i \in DOMAIN perDay : perDay[i].dayKey = k}
    IN  IF hits = {} THEN <<>>
        ELSE <<perDay[CHOOSE i \in hits : \A j \in hits : j <= i]>>

AlignOrders(perDay, dayKeys) ==
    [i \in DOMAIN dayKeys |->
        LET r == ByKeyGet(perDay, dayKeys[i]) IN IF r # <<>> THEN r[1].orders ELSE 0]

\* Mutant: row i is taken for bucket i.
AlignRevenueByPosition(perDay, dayKeys) ==
    [i \in DOMAIN dayKeys |->
        IF i <= Len(perDay) THEN ToCurrency(perDay[i].revenueCents) ELSE ToCurrency(0)]

AlignRevenue(perDay, dayKeys) ==
    [i \in DOMAIN dayKeys |->
        LET r == ByKeyGet(perDay, dayKeys[i])
        IN  IF r # <<>> THEN ToCurrency(r[1].revenueCents) ELSE ToCurrency(0)]

\* Mutant: days without a row are skipped instead of filled with 0.
AlignCustomersCompact(perDay, dayKeys) ==
    LET with == SelectSeq(dayKeys, LAMBDA k : ByKeyGet(perDay, k) # <<>>)
    IN  [i \in DOMAIN with |-> ByKeyGet(perDay, with[i])[1].customers]

AlignCustomers(perDay, dayKeys) ==
    [i \in DOMAIN dayKeys |->
        LET r == ByKeyGet(perDay, dayKeys[i]) IN IF r # <<>> THEN r[1].customers ELSE 0]

ZeroTotals == [orders |-> 0, revenueCents |-> 0, customersUnique |-> 0, menuUnique |-> 0]

SuccessBody(site, mode, a) ==
    LET totalsRow == IF a.totals # <<>> THEN a.totals[1] ELSE ZeroTotals
        windowDoc == IF a.windowEcho # <<>> THEN a.windowEcho[1]
                     ELSE [start |-> <<>>, end |-> <<>>]
        buckets   == buildDayBucketsDSTSafe(windowDoc.start, windowDoc.end, mode = "week")
        dayKeys   == [i \in DOMAIN buckets |-> buckets[i].key]
    IN  [ok        |-> TRUE,
         site      |-> [_id |-> site._id, slug |-> site.slug,
                        name |-> IF site.name # <<>> THEN site.name[1] ELSE site.slug],
         mode      |-> mode,
         tz        |-> CANADA_TZ,
         window    |-> [start |-> windowDoc.start, end |-> windowDoc.end],
         labels    |-> [i \in DOMAIN buckets |-> buckets[i].label],
         orders    |-> AlignOrders(a.perDay, dayKeys),
         revenue   |-> AlignRevenue(a.perDay, dayKeys),
         customers |-> AlignCustomers(a.perDay, dayKeys),
         totals    |-> [orders          |-> totalsRow.orders,
                        revenue         |-> ToCurrency(totalsRow.revenueCents),
                        customersUnique |-> totalsRow.customersUnique,
                        menuUnique      |-> totalsRow.menuUnique]]

NoResponse == [status |-> 0, body |-> [none |-> TRUE]]

Failure(code, message) == [status |-> code, body |-> [error |-> message]]

FailureNotOk(code, message) == [status |-> code, body |-> [ok |-> FALSE, error |-> message]]

(***************************************************************************)
(* getDashboardSeries, one action per stretch between two awaits.          *)
(* (Error texts are the code's, written without their backquotes.)         *)
(***************************************************************************)
CapabilityMessage ==
    "This endpoint requires MongoDB date expressions with timezone support ($dateTrunc/$dateFromParts/$dateAdd). Please upgrade MongoDB to 5.0+."

GenericMessage == "Failed to build dashboard series"

\* Why a store call can reject: the server lacks the timezone-aware date
\* operators, or the connection fails or times out.
AggregateFaults == {"no_timezone_support", "connection_lost"}

LookupFaults == {"connection_lost"}

\* The lookup of line 105 or of line 108.
SiteLookupCall(siteParam) ==
    IF isValidObjectIdString(siteParam) THEN "Site.findById" ELSE "Site.findOne"

\* Lines 90-98: the checks made before the site lookup is awaited.
Validate ==
    /\ pc = "validate"
    /\ IF req.site = <<>>
       THEN /\ resp' = Failure(400, "site is required (slug or ObjectId)")
            /\ pc' = "done"
            /\ calls' = Append(calls, "res.json")
       ELSE IF req.mode \notin Modes
       THEN /\ resp' = Failure(400, "mode must be one of: week, month, custom")
            /\ pc' = "done"
            /\ calls' = Append(calls, "res.json")
       ELSE /\ pc' = "resolve"
            /\ calls' = Append(calls, SiteLookupCall(req.site))
            /\ UNCHANGED resp
    /\ UNCHANGED <<now, sites, orders, req, siteDoc, plan, agg, fault, waiting>>

\* Mutant: the aggregation is started before start / end are checked.
ResolveSiteAggregatingFirst ==
    /\ pc = "resolve"
    /\ LET found == IF isValidObjectIdString(req.site)
                    THEN FindSiteById(ObjectId(req.site))
                    ELSE FindSiteBySlug(req.site)
       IN  IF found = <<>>
           THEN /\ resp' = Failure(404, IF isValidObjectIdString(req.site)
                                        THEN "Site not found for provided ObjectId"
                                        ELSE "Site not found for provided slug")
                /\ pc' = "done"
                /\ calls' = Append(calls, "res.json")
                /\ UNCHANGED <<siteDoc, plan>>
           ELSE IF req.mode \in {"week", "month"}
           THEN /\ siteDoc' = found
                /\ plan' = <<PlanTrailing(req.mode)>>
                /\ pc' = "aggregate"
                /\ calls' = Append(calls, "Order.aggregate")
                /\ UNCHANGED resp
           ELSE IF ~IsYMD(req.start) \/ ~IsYMD(req.end)
           THEN /\ siteDoc' = found
                /\ resp' = Failure(400, "start and end (YYYY-MM-DD) are required for custom mode")
                /\ pc' = "done"
                /\ calls' = calls \o <<"Order.aggregate", "res.json">>
                /\ UNCHANGED plan
           ELSE /\ siteDoc' = found
                /\ plan' = <<PlanCustom(req.start, req.end)>>
                /\ pc' = "aggregate"
                /\ calls' = Append(calls, "Order.aggregate")
                /\ UNCHANGED resp
    /\ UNCHANGED <<now, sites, orders, req, agg, fault, waiting>>

\* Lines 100-272: the site lookup returns; the window expressions and the
\* pipeline are built and the aggregation is started.
ResolveSite ==
    /\ pc = "resolve"
    /\ LET found == IF isValidObjectIdString(req.site)
                    THEN FindSiteById(ObjectId(req.site))
                    ELSE FindSiteBySlug(req.site)
       IN  IF found = <<>>
           THEN /\ resp' = Failure(404, IF isValidObjectIdString(req.site)
                                        THEN "Site not found for provided ObjectId"
                                        ELSE "Site not found for provided slug")
                /\ pc' = "done"
                /\ calls' = Append(calls, "res.json")
                /\ UNCHANGED <<siteDoc, plan>>
           ELSE IF req.mode \in {"week", "month"}
           THEN /\ siteDoc' = found
                /\ plan' = <<PlanTrailing(req.mode)>>
                /\ pc' = "aggregate"
                /\ calls' = Append(calls, "Order.aggregate")
                /\ UNCHANGED resp
           ELSE IF ~IsYMD(req.start) \/ ~IsYMD(req.end)
           THEN /\ siteDoc' = found
                /\ resp' = Failure(400, "start and end (YYYY-MM-DD) are required for custom mode")
                /\ pc' = "done"
                /\ calls' = Append(calls, "res.json")
                /\ UNCHANGED plan
           ELSE /\ siteDoc' = found
                /\ plan' = <<PlanCustom(req.start, req.end)>>
                /\ pc' = "aggregate"
                /\ calls' = Append(calls, "Order.aggregate")
                /\ UNCHANGED resp
    /\ UNCHANGED <<now, sites, orders, req, agg, fault, waiting>>

\* The site lookup rejects: the outer catch answers (lines 325-328).
ResolveSiteThrows ==
    /\ pc = "resolve"
    /\ \E cause \in LookupFaults : fault' = <<cause>>
    /\ resp' = FailureNotOk(500, GenericMessage)
    /\ pc' = "done"
    /\ calls' = Append(calls, "res.json")
    /\ UNCHANGED <<now, sites, orders, req, siteDoc, plan, agg, waiting>>

\* Mutant: the pipeline ends with an $out stage after $match, which replaces
\* the collection by the matched documents.
AggregateWithOutStage ==
    /\ pc = "aggregate"
    /\ \E a \in AggregateResults(orders, siteDoc[1]._id, plan[1], now) :
          /\ agg' = <<a>>
          /\ resp' = [status |-> 200, body |-> SuccessBody(siteDoc[1], req.mode, a)]
    /\ orders' = Matched(orders, siteDoc[1]._id, plan[1], now)
    /\ pc' = "done"
    /\ calls' = Append(calls, "res.json")
    /\ UNCHANGED <<now, sites, req, siteDoc, plan, fault, waiting>>

\* Mutant: startExpr / endExpr are kept in a variable of the module, which a
\* request in flight that built its window overwrites.
AggregateSharedPlan ==
    /\ pc = "aggregate"
    /\ LET built == {i \in DOMAIN waiting : waiting[i].plan # <<>>}
           p == IF built = {} THEN plan[1]
                ELSE waiting[CHOOSE i \in built : \A j \in built : j <= i].plan[1]
       IN  \E a \in AggregateResults(orders, siteDoc[1]._id, p, now) :
              /\ agg' = <<a>>
              /\ resp' = [status |-> 200, body |-> SuccessBody(siteDoc[1], req.mode, a)]
    /\ pc' = "done"
    /\ calls' = Append(calls, "res.json")
    /\ UNCHANGED <<now, sites, orders, req, siteDoc, plan, fault, waiting>>

\* Lines 270-324: the aggregation returns and the response is assembled.
Aggregate ==
    /\ pc = "aggregate"
    /\ \E a \in AggregateResults(orders, siteDoc[1]._id, plan[1], now) :
          /\ agg' = <<a>>
          /\ resp' = [status |-> 200, body |-> SuccessBody(siteDoc[1], req.mode, a)]
    /\ pc' = "done"
    /\ calls' = Append(calls, "res.json")
    /\ UNCHANGED <<now, sites, orders, req, siteDoc, plan, fault, waiting>>

\* Mutant: no inner try / catch, the outer catch answers.
AggregateThrowsToOuterCatch ==
    /\ pc = "aggregate"
    /\ \E cause \in AggregateFaults : fault' = <<cause>>
    /\ resp' = FailureNotOk(500, GenericMessage)
    /\ pc' = "done"
    /\ calls' = Append(calls, "res.json")
    /\ UNCHANGED <<now, sites, orders, req, siteDoc, plan, agg, waiting>>

\* Lines 273-281: the aggregation rejects, whatever the cause.
AggregateThrows ==
    /\ pc = "aggregate"
    /\ \E cause \in AggregateFaults : fault' = <<cause>>
    /\ resp' = FailureNotOk(500, CapabilityMessage)
    /\ pc' = "done"
    /\ calls' = Append(calls, "res.json")
    /\ UNCHANGED <<now, sites, orders, req, siteDoc, plan, agg, waiting>>

Next ==
    \/ Validate
    \/ ResolveSite
    \/ ResolveSiteThrows
    \/ Aggregate
    \/ AggregateThrows

(***************************************************************************)
(* Inputs.                                                                 *)
(***************************************************************************)
MaxOrders == 2

Instant(y, m, d, h) == MakeDay(y, m - 1, d) * HoursPerDay + h

Hex24(c) == [i \in 1..24 |-> c]

SiteA == [_id |-> Hex24("a"), slug |-> <<"a", "c", "m", "e">>, name |-> <<"Acme Pizza">>]

\* A slug made of hexadecimal digits only.
SiteB == [_id |-> Hex24("b"), slug |-> <<"c", "a", "f", "e">>, name |-> <<>>]

\* A slug that has the shape of an id, and of another site's id at that.
SiteC == [_id |-> Hex24("c"), slug |-> Hex24("b"), name |-> <<"Hex Slug">>]

SiteStore == {SiteA, SiteB, SiteC}

New == <<"n", "e", "w">>

\* An order of SiteA with the fields a scenario does not vary.
OrderAt(t) ==
    [site |-> SiteA._id, createdAt |-> t, status |-> New, totalCents |-> <<1050>>,
     phone |-> <<>>, userEmail |-> <<"ann@example.com">>, items |-> << <<"Pizza">> >>]

\* Non-decreasing index sequences of length n over 1..k.
NonDecreasing(n, k) ==
    {ix \in [1..n -> 1..k] : \A i \in 1..(n - 1) : ix[i] <= ix[i + 1]}

\* The collections of at most MaxOrders documents drawn (with repetition)
\* from the sequence dom.
Stores(dom) ==
    UNION {{[i \in 1..n |-> dom[ix[i]]] : ix \in NonDecreasing(n, Len(dom))} : n \in 0..MaxOrders}

Text(y, m, d) == FormatYMD([y |-> y, m |-> m, d |-> d])

Query(site, mode, start, end) == [site |-> site, mode |-> mode, start |-> start, end |-> end]

\* Instants at which requests are served: inside the week after the spring
\* transition (2024-03-10), after the autumn one (2024-11-03), and in
\* midsummer when the UTC date is already the next day.
Nows == {Instant(2024, 3, 12, 18), Instant(2024, 11, 5, 3), Instant(2024, 7, 15, 5)}

CustomStarts == {Text(2024, 3, 9), Text(2024, 11, 2)}

CustomEnds ==
    {Text(2024, 3, 8), Text(2024, 3, 10), Text(2024, 5, 9), Text(2024, 5, 10),
     Text(2024, 11, 4), Text(2025, 1, 2), Text(2025, 1, 3)}

WindowQueries ==
    {Query(SiteA.slug, m, <<>>, <<>>) : m \in {"week", "month", "custom", "", "year"}}
    \cup {Query(s, "week", <<>>, <<>>) :
             s \in {<<>>, SiteB.slug, <<"n", "o">>, <<"A", "C", "M", "E">>, Hex24("A"),
                    Hex24("b"), Hex24("d"), Hex24("g")}}
    \cup {Query(SiteA.slug, "custom", s, e) : s \in CustomStarts, e \in CustomEnds}
    \cup {Query(s, "custom", <<"2", "0", "2", "4", "-", "3", "-", "9">>, Text(2024, 3, 10)) :
             s \in {SiteA.slug, <<"n", "o">>}}
    \cup {Query(SiteA.slug, "custom", Text(2024, 3, 9), <<>>)}
    \cup {Query(SiteA.slug, "custom", Text(2024, 2, 30), Text(2024, 3, 10)),
          Query(SiteA.slug, "custom", Text(2024, 3, 9), Text(2024, 4, 31)),
          Query(SiteA.slug, "custom", Text(2023, 15, 9), Text(2024, 3, 10))}

\* Orders around the windows above: the hour before 2024-03-09 00:00 local,
\* that midnight, the last hour of the 23-hour day 2024-03-10, the midnight
\* after it, and an hour of the 25-hour day 2024-11-03.
WindowOrders ==
    <<OrderAt(Instant(2024, 3, 9, 6)), OrderAt(Instant(2024, 3, 9, 7)),
      OrderAt(Instant(2024, 3, 11, 5)), OrderAt(Instant(2024, 3, 11, 6)),
      OrderAt(Instant(2024, 11, 4, 6))>>

InitWith(nows, stores, queries) ==
    /\ now \in nows
    /\ sites = SiteStore
    /\ orders \in stores
    /\ req \in queries
    /\ pc = "validate"
    /\ siteDoc = <<>>
    /\ plan = <<>>
    /\ agg = <<>>
    /\ resp = NoResponse
    /\ calls = <<>>
    /\ fault = <<>>
    /\ waiting = <<>>

Init == InitWith(Nows, Stores(WindowOrders), WindowQueries)

Spec == Init /\ [][Next]_vars

\* Scenario: the status of the orders varies.
AwaitingTitle == <<"A", "w", "a", "i", "t", "i", "n", "g", "_", "P", "a", "y", "m", "e", "n", "t">>

AwaitingUpper == <<"A", "W", "A", "I", "T", "I", "N", "G", "_", "P", "A", "Y", "M", "E", "N", "T">>

AwaitingSpaced == <<"a", "w", "a", "i", "t", "i", "n", "g", " ", "p", "a", "y", "m", "e", "n", "t">>

Statuses == <<<<>>, New, AWAITING, AwaitingTitle, AwaitingUpper, AwaitingSpaced>>

StatusTimes == <<Instant(2024, 3, 9, 18), Instant(2024, 3, 10, 18)>>

StatusOrders ==
    [k \in 1..(Len(Statuses) * Len(StatusTimes)) |->
        [OrderAt(StatusTimes[((k - 1) % Len(StatusTimes)) + 1])
            EXCEPT !.status = Statuses[((k - 1) \div Len(StatusTimes)) + 1]]]

\* A custom range over 2024-03-09..2024-03-10 and the week that holds it.
AggQueries ==
    {Query(SiteA.slug, "custom", Text(2024, 3, 9), Text(2024, 3, 10)),
     Query(Hex24("A"), "week", <<>>, <<>>)}

AggNows == {Instant(2024, 3, 12, 18)}

InitStatus == InitWith(AggNows, Stores(StatusOrders), AggQueries)

SpecStatus == InitStatus /\ [][Next]_vars

\* Scenario: the customer, the amount and the day of the orders vary.  The
\* second instant is 22:00 local on 2024-03-09, already 2024-03-10 in UTC.
CustomerTimes == <<Instant(2024, 3, 9, 18), Instant(2024, 3, 10, 5), Instant(2024, 3, 10, 18)>>

Amounts == <<<<>>, <<1050>>, <<599>>>>

Contacts ==
    <<[phone |-> <<"+14035550101">>, userEmail |-> <<"ann@example.com">>],
      [phone |-> <<"+14035550101">>, userEmail |-> <<"bob@example.com">>],
      [phone |-> <<>>, userEmail |-> <<"ann@example.com">>],
      [phone |-> <<>>, userEmail |-> <<>>]>>

CustomerOrders ==
    [k \in 1..(Len(CustomerTimes) * Len(Amounts) * Len(Contacts)) |->
        LET t == CustomerTimes[((k - 1) % Len(CustomerTimes)) + 1]
            a == Amounts[(((k - 1) \div Len(CustomerTimes)) % Len(Amounts)) + 1]
            c == Contacts[((k - 1) \div (Len(CustomerTimes) * Len(Amounts))) + 1]
        IN  [OrderAt(t) EXCEPT !.totalCents = a, !.phone = c.phone, !.userEmail = c.userEmail]]

InitCustomers == InitWith(AggNows, Stores(CustomerOrders), AggQueries)

SpecCustomers == InitCustomers /\ [][Next]_vars

\* Scenario: orders on and around the bounds of the two windows, for the
\* requested site and for another one.
BoundaryTimes ==
    <<Instant(2024, 3, 6, 7), Instant(2024, 3, 9, 6), Instant(2024, 3, 9, 7),
      Instant(2024, 3, 11, 5), Instant(2024, 3, 11, 6), Instant(2024, 3, 13, 6)>>

BoundarySites == <<SiteA._id, SiteB._id>>

BoundaryStatuses == <<New, AWAITING>>

BoundaryOrders ==
    [k \in 1..(Len(BoundaryTimes) * Len(BoundarySites) * Len(BoundaryStatuses)) |->
        LET t  == BoundaryTimes[((k - 1) % Len(BoundaryTimes)) + 1]
            s  == BoundarySites[(((k - 1) \div Len(BoundaryTimes)) % Len(BoundarySites)) + 1]
            st == BoundaryStatuses[((k - 1) \div (Len(BoundaryTimes) * Len(BoundarySites))) + 1]
        IN  [OrderAt(t) EXCEPT !.site = s, !.status = st]]

InitBoundary == InitWith(AggNows, Stores(BoundaryOrders), AggQueries)

SpecBoundary == InitBoundary /\ [][Next]_vars


(***************************************************************************)
(* Vocabulary of the properties, stated on days and instants rather than   *)
(* on the text keys the code works with.                                   *)
(***************************************************************************)
Success == pc = "done" /\ resp.status = 200

RECURSIVE SumInts(_)
SumInts(q) == IF q = <<>> THEN 0 ELSE q[1] + SumInts(Tail(q))

\* Local calendar day (as a day number) on which instant t falls.
LocalDay(t) == (t + TzOffset(t)) \div HoursPerDay

\* The instant at which local calendar day z begins.
LocalMidnight(z) ==
    CHOOSE t \in (z * HoursPerDay + 5)..(z * HoursPerDay + 8) :
        t + TzOffset(t) = z * HoursPerDay

\* Day number of a well-formed "YYYY-MM-DD" text.
DayOfText(s) ==
    MakeDay(Number(SubSeq(s, 1, 4)), Number(SubSeq(s, 6, 7)) - 1, Number(SubSeq(s, 9, 10)))

\* Local days that are 23 or 25 hours long.
IsTransitionDay(z) == LocalMidnight(z + 1) - LocalMidnight(z) # HoursPerDay

CustomRequest == req.mode = "custom" /\ IsYMD(req.start) /\ IsYMD(req.end)

\* A "YYYY-MM-DD" text that names a day of the calendar.
IsCalendarDate(s) ==
    LET k == parseKey(s)
    IN  /\ k.m \in 1..12
        /\ k.d >= 1
        /\ CivilOfDay(MakeDay(k.y, k.m - 1, k.d)) = k

RealCustomRequest ==
    CustomRequest /\ IsCalendarDate(req.start) /\ IsCalendarDate(req.end)

SeriesLengths(b) == {Len(b.labels), Len(b.orders), Len(b.revenue), Len(b.customers)}

\* C1: every successful week response has exactly 7 day buckets and every
\* successful month response exactly 30, whatever the instant and the store.
C1_WeekMonthBucketCount ==
    Success =>
        /\ req.mode = "week" => SeriesLengths(resp.body) = {7}
        /\ req.mode = "month" => SeriesLengths(resp.body) = {30}

\* C1 as the code keeps it: the counts hold once an order has matched.
C1_BucketCountWhenAnOrderMatched ==
    (Success /\ agg[1].windowEcho # <<>>) =>
        /\ req.mode = "week" => SeriesLengths(resp.body) = {7}
        /\ req.mode = "month" => SeriesLengths(resp.body) = {30}

\* C2: a custom request whose end date is earlier than its start date is
\* never answered with a success response.
C2_ReversedRangeRejected ==
    (pc = "done" /\ RealCustomRequest /\ DayOfText(req.end) < DayOfText(req.start))
        => resp.status # 200

\* C5: a custom span of more than 62 days is reported as exactly 62 buckets
\* starting at the requested start date; a span of at most 62 days keeps the
\* requested end date.
C5_ClampTo62Days ==
    (Success /\ RealCustomRequest) =>
        LET s    == DayOfText(req.start)
            e    == DayOfText(req.end)
            span == e - s + 1
        IN  /\ span > 62 =>
                /\ SeriesLengths(resp.body) = {62}
                /\ resp.body.window = [start |-> <<LocalMidnight(s)>>,
                                       end   |-> <<LocalMidnight(s + 62)>>]
            /\ span <= 62 => plan[1].e = CivilOfDay(e)

C5_ClampWhenAnOrderMatched ==
    (Success /\ RealCustomRequest /\ agg[1].windowEcho # <<>>) =>
        LET s    == DayOfText(req.start)
            e    == DayOfText(req.end)
            span == e - s + 1
        IN  /\ span > 62 =>
                /\ SeriesLengths(resp.body) = {62}
                /\ resp.body.window = [start |-> <<LocalMidnight(s)>>,
                                       end   |-> <<LocalMidnight(s + 62)>>]
            /\ span <= 62 => plan[1].e = CivilOfDay(e)

\* The window start..end (inclusive days) has a 23- or 25-hour day and the
\* response reports it day by day, from local midnight to local midnight.
DstRangeReported(b, s, e) ==
    /\ SeriesLengths(b) = {e - s + 1}
    /\ b.window = [start |-> <<LocalMidnight(s)>>, end |-> <<LocalMidnight(e + 1)>>]
    /\ (b.window.end[1] - b.window.start[1]) - HoursPerDay * Len(b.labels) \in {-1, 1}

SpansOneTransition(s, e) ==
    /\ s <= e
    /\ e - s + 1 <= 62
    /\ Cardinality({z \in s..e : IsTransitionDay(z)}) = 1

\* C6: a custom range of at most 62 days that contains a 23- or 25-hour day
\* yields one bucket per local calendar day, from local midnight to local
\* midnight, so that the window is one hour shorter or longer than 24 h a day.
C6_DstRangeOneBucketPerDay ==
    (Success /\ RealCustomRequest /\ SpansOneTransition(DayOfText(req.start), DayOfText(req.end)))
        => DstRangeReported(resp.body, DayOfText(req.start), DayOfText(req.end))

C6_DstRangeWhenAnOrderMatched ==
    (Success /\ RealCustomRequest /\ agg[1].windowEcho # <<>>
        /\ SpansOneTransition(DayOfText(req.start), DayOfText(req.end)))
        => DstRangeReported(resp.body, DayOfText(req.start), DayOfText(req.end))

\* Two texts are equal up to the case of their letters.
SameLetter(a, b) ==
    \/ a = b
    \/ \E k \in DOMAIN UpperChars : {a, b} = {UpperChars[k], LowerChars[k]}

EqualIgnoringCase(x, y) == Len(x) = Len(y) /\ \A i \in DOMAIN x : SameLetter(x[i], y[i])

IsAwaitingPayment(o) == EqualIgnoringCase(o.status, AWAITING)

\* The window the handler planned, as instants.
PlannedStart == EvalStart(plan[1], now)

PlannedEnd == EvalEnd(plan[1], now)

\* Positions in the collection of the orders the report is about.
Counted ==
    {i \in DOMAIN orders :
        /\ orders[i].site = siteDoc[1]._id
        /\ PlannedStart <= orders[i].createdAt
        /\ orders[i].createdAt < PlannedEnd
        /\ ~IsAwaitingPayment(orders[i])}

CountedOn(z) == {i \in Counted : LocalDay(orders[i].createdAt) = z}

RECURSIVE CentsOf(_)
CentsOf(S) ==
    IF S = {} THEN 0
    ELSE LET i == CHOOSE j \in S : TRUE
         IN  (IF orders[i].totalCents = <<>> THEN 0 ELSE orders[i].totalCents[1])
             + CentsOf(S \ {i})

\* Customer identity of an order: the dropoff phone, else the stored email.
HasIdentity(o) == o.phone # <<>> \/ o.userEmail # <<>>

Identity(o) == IF o.phone # <<>> THEN o.phone[1] ELSE o.userEmail[1]

IdentitiesOf(S) == {Identity(orders[i]) : i \in {j \in S : HasIdentity(orders[j])}}

InCents(v) == v.whole * 100 + v.hundredths

\* The local day that position i of the series stands for.
BucketDay(b, i) == LocalDay(b.window.start[1]) + i - 1

\* C3: orders whose status is awaiting_payment in any letter case contribute
\* to no series value and to no total (the response is the one the store
\* without them gives); every other order of the site in the window is
\* counted, in the totals and in the day series.
C3_AwaitingPaymentExcluded ==
    Success =>
        LET b    == resp.body
            rest == SelectSeq(orders, LAMBDA o : ~IsAwaitingPayment(o))
        IN  /\ b \in {SuccessBody(siteDoc[1], req.mode, a) :
                        a \in AggregateResults(rest, siteDoc[1]._id, plan[1], now)}
            /\ b.totals.orders = Cardinality(Counted)
            /\ SumInts(b.orders) = Cardinality(Counted)

C3_Witness ==
    /\ Success
    /\ \E i, j \in DOMAIN orders :
          /\ orders[i].status = AwaitingTitle
          /\ orders[j].status = <<>>
    /\ resp.body.totals.orders = 1

\* C4: the whole-window customer count is at most the sum of the per-day
\* counts, and strictly less when some customer has counted orders on two
\* different local days.
C4_UniqueCustomersNotAdditive ==
    Success =>
        LET b == resp.body
        IN  /\ b.totals.customersUnique <= SumInts(b.customers)
            /\ (\E i, j \in Counted :
                    /\ HasIdentity(orders[i]) /\ HasIdentity(orders[j])
                    /\ Identity(orders[i]) = Identity(orders[j])
                    /\ LocalDay(orders[i].createdAt) # LocalDay(orders[j].createdAt))
               => b.totals.customersUnique < SumInts(b.customers)

C4_Witness ==
    /\ Success
    /\ resp.body.totals.customersUnique = 1
    /\ SumInts(resp.body.customers) = 2

\* C7: the four series have one entry per bucket day of the reported window,
\* and entry i of each is about the i-th day of the window: its label, and
\* the values of the aggregation row of that day (zero without a row).
C7_SeriesAligned ==
    Success =>
        LET b == resp.body
            n == IF b.window.start = <<>> \/ b.window.end = <<>> THEN 0
                 ELSE LocalDay(b.window.end[1] - 1) - LocalDay(b.window.start[1]) + 1
        IN  /\ SeriesLengths(b) = {n}
            /\ \A i \in 1..n :
                  LET z    == BucketDay(b, i)
                      c    == CivilOfDay(z)
                      rows == {r \in Range(agg[1].perDay) : r.dayKey = FormatYMD(c)}
                  IN  /\ b.labels[i] = IF req.mode = "week"
                                       THEN WeekdayNames[WeekdayOfDay(z) + 1]
                                       ELSE MonthNames[c.m] \o " " \o DigitChars[(c.d \div 10) + 1]
                                                \o DigitChars[(c.d % 10) + 1]
                      /\ rows = {} =>
                            /\ b.orders[i] = 0 /\ InCents(b.revenue[i]) = 0
                            /\ b.customers[i] = 0
                      /\ \A r \in rows :
                            /\ b.orders[i] = r.orders
                            /\ InCents(b.revenue[i]) = r.revenueCents
                            /\ b.customers[i] = r.customers

C7_Witness ==
    /\ Success
    /\ req.mode = "custom"
    /\ Len(resp.body.labels) = 62
    /\ resp.body.orders[1] = 1
    /\ resp.body.orders[2] = 0
    /\ resp.body.orders[3] = 1

\* C8: for every bucket day, orders / revenue / customers are the number, the
\* totalCents sum (absent counting 0) and the number of distinct customer
\* identities of the counted orders created on that local day; totals.orders
\* and totals.revenue are the number and the sum over all counted orders.
C8_PerDayValues ==
    Success =>
        LET b == resp.body
        IN  /\ \A i \in DOMAIN b.orders :
                  LET S == CountedOn(BucketDay(b, i))
                  IN  /\ b.orders[i] = Cardinality(S)
                      /\ InCents(b.revenue[i]) = CentsOf(S)
                      /\ b.customers[i] = Cardinality(IdentitiesOf(S))
            /\ b.totals.orders = Cardinality(Counted)
            /\ InCents(b.totals.revenue) = CentsOf(Counted)

\* Two orders of 2024-03-09 local, one of them late enough to be dated
\* 2024-03-10 in UTC, one with and one without a totalCents.
C8_Witness ==
    /\ Success
    /\ req.mode = "custom"
    /\ Len(orders) = 2
    /\ orders[1].createdAt = Instant(2024, 3, 10, 5)
    /\ orders[1].totalCents = <<599>>
    /\ orders[2].totalCents = <<>>
    /\ resp.body.orders = <<2, 0>>
    /\ InCents(resp.body.revenue[1]) = 599

\* C9: with the request, the instant and the store fixed, every result the
\* aggregation can return (its rows come in no fixed order) is assembled
\* into one and the same success response.
C9_Deterministic ==
    Success =>
        \A a \in AggregateResults(orders, siteDoc[1]._id, plan[1], now) :
            resp.body = SuccessBody(siteDoc[1], req.mode, a)

\* The rows came back latest day first.
C9_Witness ==
    /\ Success
    /\ Len(agg[1].perDay) = 2
    /\ DayOfText(agg[1].perDay[1].dayKey) > DayOfText(agg[1].perDay[2].dayKey)

\* C10: the counted orders are exactly the orders of the site (not awaiting
\* payment) with window.start <= createdAt < window.end, in the totals and
\* in the day series; without a reported window nothing is counted.
C10_HalfOpenWindow ==
    Success =>
        LET b == resp.body
            inside == IF b.window.start = <<>> \/ b.window.end = <<>> THEN {}
                      ELSE {i \in DOMAIN orders :
                              /\ orders[i].site = b.site._id
                              /\ ~IsAwaitingPayment(orders[i])
                              /\ b.window.start[1] <= orders[i].createdAt
                              /\ orders[i].createdAt < b.window.end[1]}
        IN  /\ b.totals.orders = Cardinality(inside)
            /\ SumInts(b.orders) = Cardinality(inside)
            /\ InCents(b.totals.revenue) = CentsOf(inside)

\* One order exactly at window.start and one exactly at window.end: only
\* the first is counted.
C10_Witness ==
    /\ Success
    /\ Len(orders) = 2
    /\ \A i \in DOMAIN orders : orders[i].site = resp.body.site._id /\ orders[i].status = New
    /\ <<orders[1].createdAt>> = resp.body.window.start
    /\ <<orders[2].createdAt>> = resp.body.window.end
    /\ resp.body.totals.orders = 1
    /\ resp.body.orders[1] = 1

\* C11: for a window with start < end the bucket list is the local calendar
\* dates from the date of start through the date of the instant just before
\* end, one after the other, none missing, none twice; and every dayKey of
\* the per-day grouping is the key of one of these buckets.
C11_BucketsConsecutive ==
    (Success /\ resp.body.window.start # <<>>) =>
        LET w       == resp.body.window
            buckets == buildDayBucketsDSTSafe(w.start, w.end, req.mode = "week")
            first   == LocalDay(w.start[1])
            last    == LocalDay(w.end[1] - 1)
        IN  /\ w.start[1] < w.end[1]
            /\ Len(buckets) = last - first + 1
            /\ \A i \in DOMAIN buckets :
                  buckets[i].key = FormatYMD(CivilOfDay(first + i - 1))
            /\ \A i \in DOMAIN buckets : \A j \in DOMAIN buckets :
                  i < j => buckets[i].key # buckets[j].key
            /\ \A r \in DOMAIN agg[1].perDay :
                  \E i \in DOMAIN buckets : buckets[i].key = agg[1].perDay[r].dayKey

\* A 62-day window over the start of daylight time and three month ends,
\* with orders on two of its days.
C11_Witness ==
    /\ Success
    /\ resp.body.window.start # <<>>
    /\ Len(resp.body.labels) = 62
    /\ Len(agg[1].perDay) = 2
    /\ \E z \in LocalDay(resp.body.window.start[1])..LocalDay(resp.body.window.end[1] - 1) :
          IsTransitionDay(z)

\* The planned window is reported, with one bucket per local day of it, and
\* the buckets of the days without a counted order are zero.
ZeroFilledPlannedWindow(b) ==
    LET first == LocalDay(PlannedStart)
        n     == LocalDay(PlannedEnd - 1) - first + 1
    IN  /\ b.window = [start |-> <<PlannedStart>>, end |-> <<PlannedEnd>>]
        /\ SeriesLengths(b) = {n}
        /\ \A i \in 1..n :
              CountedOn(first + i - 1) = {} =>
                  /\ b.orders[i] = 0
                  /\ b.revenue[i] = ToCurrency(0)
                  /\ b.customers[i] = 0

\* C12: every successful response reports the planned instants as its window
\* (never null) and has a zero bucket for each day of the planned window
\* without a matching order, also when no order at all matches.
C12_ZeroFilledPlannedWindow ==
    (Success /\ PlannedStart < PlannedEnd) => ZeroFilledPlannedWindow(resp.body)

\* The same, for the responses of requests that at least one order matched.
C12_ZeroFilledWhenAnOrderMatched ==
    (Success /\ PlannedStart < PlannedEnd /\ agg[1].windowEcho # <<>>) =>
        ZeroFilledPlannedWindow(resp.body)

\* A text of 24 hexadecimal digits.
IdShaped(s) ==
    /\ Len(s) = 24
    /\ \A i \in DOMAIN s :
          \/ IsDigit(s[i])
          \/ \E c \in {"a", "b", "c", "d", "e", "f"} : SameLetter(s[i], c)

\* The sites the lookup for the site parameter can match.
SitesNamedBy(s) ==
    IF IdShaped(s)
    THEN {d \in SiteStore : EqualIgnoringCase(d._id, s)}
    ELSE {d \in SiteStore : d.slug = s}

\* The request passed the checks of site and mode and its lookup returned.
LookupReturned ==
    /\ pc \in {"aggregate", "done"}
    /\ req.site # <<>>
    /\ req.mode \in Modes
    /\ ~(fault # <<>> /\ "Order.aggregate" \notin Range(calls))

\* C13: an id-shaped site parameter is looked up by id, any other by slug;
\* when the lookup performed matches no site the response is 404 with no
\* order data; the site store is left as it was.
C13_SiteResolution ==
    /\ sites = SiteStore
    /\ LookupReturned =>
          /\ calls[1] = IF IdShaped(req.site) THEN "Site.findById" ELSE "Site.findOne"
          /\ SitesNamedBy(req.site) = {} =>
                /\ pc = "done"
                /\ resp.status = 404
                /\ DOMAIN resp.body = {"error"}
                /\ siteDoc = <<>> /\ agg = <<>>
                /\ "Order.aggregate" \notin Range(calls)
          /\ SitesNamedBy(req.site) # {} =>
                /\ resp.status # 404
                /\ siteDoc # <<>>
                /\ siteDoc[1] \in SitesNamedBy(req.site)
                /\ Success => resp.body.site._id = siteDoc[1]._id

\* An id that is also the slug of another site: the site of that id is
\* reported.
C13_Witness ==
    /\ Success
    /\ req.site = Hex24("b")
    /\ resp.body.site.slug = SiteB.slug

\* The three ways of matching no site.
C13_WitnessNotFound ==
    /\ pc = "done"
    /\ resp.status = 404
    /\ req.site \in {Hex24("d"), Hex24("g"), <<"A", "C", "M", "E">>}

\* C14: a request answered 400 or 404 has made no call to the order store:
\* its aggregation was never started.
C14_NoAggregationOnRejection ==
    (pc = "done" /\ resp.status \in {400, 404}) =>
        /\ "Order.aggregate" \notin Range(calls)
        /\ agg = <<>>
        /\ plan = <<>>

\* A custom request of an existing site with a malformed start, answered 400.
C14_Witness ==
    /\ pc = "done"
    /\ resp.status = 400
    /\ siteDoc # <<>>
    /\ req.mode = "custom"
    /\ ~IsYMD(req.start)

SiteLookups == {"Site.findById", "Site.findOne"}

\* A custom request whose start or end is missing or malformed.
MalformedCustomRequest ==
    /\ req.site # <<>>
    /\ req.mode = "custom"
    /\ ~IsYMD(req.start) \/ ~IsYMD(req.end)

\* C15: all of the request is validated before the site store is queried: a
\* custom request with a missing or malformed start / end is answered 400
\* whether or not its site exists, and without a site lookup.
C15_ValidationBeforeLookup ==
    (pc = "done" /\ MalformedCustomRequest /\ fault = <<>>) =>
        /\ resp.status = 400
        /\ Range(calls) \cap SiteLookups = {}

\* What holds of it: a missing site and a missing or unknown mode are
\* answered 400 without a site lookup.
C15_SiteAndModeBeforeLookup ==
    (pc = "done" /\ (req.site = <<>> \/ req.mode \notin Modes)) =>
        /\ resp.status = 400
        /\ calls = <<"res.json">>

\* Number of occurrences of x in q.
RECURSIVE CountOf(_, _)
CountOf(q, x) ==
    IF q = <<>> THEN 0
    ELSE (IF q[1] = x THEN 1 ELSE 0) + CountOf(Tail(q), x)

\* C16: when the order store cannot evaluate the timezone-aware date
\* expressions the request is answered once, with 500 and the message that
\* names the capability required, and with no series and no totals.
C16_CapabilityError ==
    (pc = "done" /\ fault = <<"no_timezone_support">>) =>
        /\ resp.status = 500
        /\ resp.body = [ok |-> FALSE, error |-> CapabilityMessage]
        /\ CountOf(calls, "res.json") = 1
        /\ calls[Len(calls)] = "res.json"
        /\ agg = <<>>

\* The store rejected the pipeline of a planned request for want of the
\* date operators.
C16_Witness ==
    /\ pc = "done"
    /\ fault = <<"no_timezone_support">>
    /\ plan # <<>>
    /\ "Order.aggregate" \in Range(calls)
    /\ resp.status = 500

\* C17: a fault that is neither a validation error, nor an unknown site, nor
\* the missing timezone capability of the store (a connection lost during the
\* aggregation or during the site lookup) is answered 500 with the generic
\* message.
C17_OtherFaultsGeneric ==
    (pc = "done" /\ fault = <<"connection_lost">>) =>
        /\ resp.status = 500
        /\ resp.body = [ok |-> FALSE, error |-> GenericMessage]

\* What holds of it: a fault of the site lookup is answered with the generic
\* message.
C17_LookupFaultGeneric ==
    (pc = "done" /\ fault # <<>> /\ "Order.aggregate" \notin Range(calls)) =>
        /\ resp.status = 500
        /\ resp.body = [ok |-> FALSE, error |-> GenericMessage]

SuccessFields ==
    {"ok", "site", "mode", "tz", "window", "labels", "orders", "revenue", "customers", "totals"}

FailureEnvelope(b) == DOMAIN b = {"ok", "error"} /\ b.ok = FALSE

SuccessEnvelope(b) == DOMAIN b = SuccessFields /\ b.ok = TRUE

\* C18: every failure response, 400, 404 or 500, is { ok: false, error } and
\* every success response has ok: true with site, mode, tz, window, labels,
\* orders, revenue, customers and totals.
C18_ResponseEnvelope ==
    pc = "done" =>
        /\ resp.status \in {200, 400, 404, 500}
        /\ resp.status = 200 => SuccessEnvelope(resp.body)
        /\ resp.status # 200 => FailureEnvelope(resp.body)

\* What holds of it: the envelopes of the 200 and of the 500 responses.
C18_EnvelopeOf200And500 ==
    pc = "done" =>
        /\ resp.status \in {200, 400, 404, 500}
        /\ resp.status = 200 => SuccessEnvelope(resp.body)
        /\ resp.status = 500 => FailureEnvelope(resp.body)
        /\ resp.status \in {400, 404} => DOMAIN resp.body = {"error"}

\* A custom request whose start and end have the YYYY-MM-DD shape and one of
\* which names no day of the calendar.
UnrealCustomRequest ==
    /\ req.site # <<>>
    /\ CustomRequest
    /\ ~IsCalendarDate(req.start) \/ ~IsCalendarDate(req.end)

\* C20: in custom mode a start or end of the YYYY-MM-DD shape that names no
\* real calendar day (month outside 1..12, day 00, day beyond the month's
\* length) is rejected with 400 and is never planned into a window.
C20_UnrealDatesRejected ==
    (pc = "done" /\ UnrealCustomRequest /\ siteDoc # <<>> /\ fault = <<>>) =>
        /\ resp.status = 400
        /\ plan = <<>>

\* What the code does with them: the parts are handed to $dateFromParts,
\* which carries them over, and the window reported starts at local midnight
\* of the day so reached.
C20_UnrealDatesCarriedOver ==
    (Success /\ UnrealCustomRequest /\ agg[1].windowEcho # <<>>) =>
        resp.body.window.start = <<LocalMidnight(DayOfText(req.start))>>

(***************************************************************************)
(* getOrdersBySiteDay (order.bySite.controller.js).                        *)
(*   request: [site, date, tz, extraDays], each a text, <<>> when absent.  *)
(*   Time zone identifiers are texts in their canonical letter case.       *)
(***************************************************************************)
DEFAULT_TZ == <<"A", "m", "e", "r", "i", "c", "a", "/", "E", "d", "m", "o", "n", "t", "o", "n">>

MAX_EXTRA_DAYS == 14

DEFAULT_EXTRA_DAYS == 7

ONE_DAY_MS == HoursPerDay

TokyoTz == <<"A", "s", "i", "a", "/", "T", "o", "k", "y", "o">>

UtcTz == <<"U", "T", "C">>

TokyoOffset == 9

\* The identifiers Intl.DateTimeFormat takes as timeZone, and the store as
\* timezone.
KnownZones == {DEFAULT_TZ, TokyoTz, UtcTz}

isValidIana(tz) ==
    /\ tz # <<>>
    /\ "/" \in Range(tz)
    /\ tz \in KnownZones

\* Mutant: the tz of the request is used as it came.
PickTzUnchecked(tz) == tz

\* usedTz (line 137).
PickTz(tz) == IF isValidIana(tz) THEN tz ELSE DEFAULT_TZ

\* The leading decimal digits of s.
RECURSIVE DigitPrefix(_)
DigitPrefix(s) ==
    IF s # <<>> /\ IsDigit(s[1]) THEN <<s[1]>> \o DigitPrefix(Tail(s)) ELSE <<>>

\* Number.parseInt(s, 10) of a text without leading blanks: <<>> is NaN.
ParseInt(s) ==
    LET signed == s # <<>> /\ s[1] \in {"-", "+"}
        body   == DigitPrefix(IF signed THEN Tail(s) ELSE s)
    IN  IF body = <<>> THEN <<>>
        ELSE IF signed /\ s[1] = "-" THEN <<0 - Number(body)>>
        ELSE <<Number(body)>>

clampInt(val, min, max, fallback) ==
    LET n == ParseInt(val)
    IN  IF n = <<>> THEN fallback
        ELSE LET atLeast == IF n[1] > min THEN n[1] ELSE min
             IN  IF atLeast < max THEN atLeast ELSE max

\* $dateFromParts / $dateAdd with timezone tz, a zone of the store.
DateFromPartsIn(tz, y, m, d) ==
    IF tz = DEFAULT_TZ THEN DateFromParts(y, m, d)
    ELSE IF tz = TokyoTz THEN MakeDay(y, m - 1, d) * HoursPerDay - TokyoOffset
    ELSE MakeDay(y, m - 1, d) * HoursPerDay

DateAddDaysIn(tz, t, amount) ==
    IF tz = DEFAULT_TZ THEN DateAddDays(t, amount) ELSE t + amount * HoursPerDay

\* Lines 137-167: the time zone, the look-ahead and the parts of the date.
PlanDay(date, tz, extraDays) ==
    [kind        |-> "day",
     usedTz      |-> PickTz(tz),
     FUTURE_DAYS |-> clampInt(extraDays, 0, MAX_EXTRA_DAYS, DEFAULT_EXTRA_DAYS),
     ymd         |-> parseKey(date)]

DayStart(p) == DateFromPartsIn(p.usedTz, p.ymd.y, p.ymd.m, p.ymd.d)

DayEnd(p) == DateAddDaysIn(p.usedTz, DayStart(p), 1)

DayEndExtended(p) == DateAddDaysIn(p.usedTz, DayStart(p), 1 + p.FUTURE_DAYS)

\* The two $match stages of lines 170-182.
MatchDayOrder(o, siteId, p) ==
    /\ o.site = siteId
    /\ o.createdAt >= DayStart(p)
    /\ o.createdAt < DayEndExtended(p)

\* { $sort: { createdAt: -1 } }: every order of the rows the sort allows.
DayOrderResults(docs, siteId, p) ==
    LET hits == {i \in DOMAIN docs : MatchDayOrder(docs[i], siteId, p)}
    IN  {[k \in DOMAIN ix |-> docs[ix[k]]] :
            ix \in {q \in Orderings(hits) :
                      \A k \in 1..(Len(q) - 1) :
                          docs[q[k]].createdAt >= docs[q[k + 1]].createdAt}}

\* Lines 198-201: the projection of the first document of the collection.
DayWindowDoc(docs, p) ==
    IF docs = <<>> THEN <<>>
    ELSE <<[start |-> DayStart(p), end |-> DayEnd(p)]>>

\* Lines 203-205: <<>> is an Invalid Date, which JSON writes as null.
DayResolvedWindow(windowDoc, date) ==
    IF windowDoc # <<>>
    THEN [start |-> <<windowDoc[1].start>>, end |-> <<windowDoc[1].end>>]
    ELSE LET resolvedStart == DateOfISO(date)
         IN  IF resolvedStart = <<>> THEN [start |-> <<>>, end |-> <<>>]
             ELSE [start |-> <<resolvedStart[1] * HoursPerDay>>,
                   end   |-> <<resolvedStart[1] * HoursPerDay + ONE_DAY_MS>>]

\* Lines 217-236 on a document of the model: it has no top-level name or
\* phone field and no pickup.location / dropoff.location, so only the
\* top-level phone and email are added.
NormalizeOrder(o) ==
    [site |-> o.site, createdAt |-> o.createdAt, status |-> o.status,
     totalCents |-> o.totalCents, dropoffPhone |-> o.phone, userEmail |-> o.userEmail,
     items |-> o.items,
     phone |-> "",
     email |-> IF o.userEmail # <<>> THEN o.userEmail[1] ELSE ""]

DaySuccessBody(site, date, p, found, window) ==
    [ok     |-> TRUE,
     site   |-> [_id |-> site._id, slug |-> site.slug,
                 name |-> IF site.name # <<>> THEN site.name[1] ELSE site.slug],
     date   |-> date,
     tz     |-> p.usedTz,
     window |-> window,
     count  |-> Len(found),
     orders |-> [k \in DOMAIN found |-> NormalizeOrder(found[k])]]

DayCapabilityMessage ==
    "Timezone-aware date expressions require MongoDB 5.0+ with timezone option on $dateFromParts/$dateAdd."

DayGenericMessage == "Failed to fetch orders"

\* Lines 120-131: the checks of site and date.
DayValidate ==
    /\ pc = "day_validate"
    /\ IF req.site = <<>>
       THEN /\ resp' = FailureNotOk(400, "site (slug) is required")
            /\ pc' = "done"
            /\ calls' = Append(calls, "res.json")
       ELSE IF ~IsYMD(req.date)
       THEN /\ resp' = FailureNotOk(400, "date must be YYYY-MM-DD")
            /\ pc' = "done"
            /\ calls' = Append(calls, "res.json")
       ELSE /\ pc' = "day_resolve"
            /\ calls' = Append(calls, "Site.findOne")
            /\ UNCHANGED resp
    /\ UNCHANGED <<now, sites, orders, req, siteDoc, plan, agg, fault, waiting>>

\* Lines 131-186: the lookup by slug returns; the pipeline is built and the
\* order query started.
DayResolveSite ==
    /\ pc = "day_resolve"
    /\ LET found == FindSiteBySlug(req.site)
       IN  IF found = <<>>
           THEN /\ resp' = FailureNotOk(404, "Site not found")
                /\ pc' = "done"
                /\ calls' = Append(calls, "res.json")
                /\ UNCHANGED <<siteDoc, plan>>
           ELSE /\ siteDoc' = found
                /\ plan' = <<PlanDay(req.date, req.tz, req.extraDays)>>
                /\ pc' = "day_orders"
                /\ calls' = Append(calls, "Order.aggregate")
                /\ UNCHANGED resp
    /\ UNCHANGED <<now, sites, orders, req, agg, fault, waiting>>

\* The lookup rejects: the outer catch answers (lines 238-241).
DayResolveSiteThrows ==
    /\ pc = "day_resolve"
    /\ \E cause \in LookupFaults : fault' = <<cause>>
    /\ resp' = FailureNotOk(500, DayGenericMessage)
    /\ pc' = "done"
    /\ calls' = Append(calls, "res.json")
    /\ UNCHANGED <<now, sites, orders, req, siteDoc, plan, agg, waiting>>

\* Lines 186-201: the order query returns and the window query is started.
DayOrders ==
    /\ pc = "day_orders"
    /\ plan[1].usedTz \in KnownZones
    /\ \E found \in DayOrderResults(orders, siteDoc[1]._id, plan[1]) :
          agg' = <<[orders |-> found]>>
    /\ pc' = "day_window"
    /\ calls' = Append(calls, "Order.aggregate")
    /\ UNCHANGED <<now, sites, orders, req, siteDoc, plan, resp, fault, waiting>>

\* Lines 187-195: the order query rejects, whatever the cause (the store
\* rejects a timezone it does not know).
DayOrdersThrows ==
    /\ pc = "day_orders"
    /\ \E cause \in (IF plan[1].usedTz \in KnownZones
                     THEN AggregateFaults ELSE {"unknown_timezone"}) :
          fault' = <<cause>>
    /\ resp' = FailureNotOk(500, DayCapabilityMessage)
    /\ pc' = "done"
    /\ calls' = Append(calls, "res.json")
    /\ UNCHANGED <<now, sites, orders, req, siteDoc, plan, agg, waiting>>

\* Lines 198-237: the window query returns and the response is sent.
DayWindow ==
    /\ pc = "day_window"
    /\ resp' = [status |-> 200,
                body   |-> DaySuccessBody(siteDoc[1], req.date, plan[1], agg[1].orders,
                               DayResolvedWindow(DayWindowDoc(orders, plan[1]), req.date))]
    /\ pc' = "done"
    /\ calls' = Append(calls, "res.json")
    /\ UNCHANGED <<now, sites, orders, req, siteDoc, plan, agg, fault, waiting>>

\* The window query rejects: the outer catch answers (lines 238-241).
DayWindowThrows ==
    /\ pc = "day_window"
    /\ \E cause \in LookupFaults : fault' = <<cause>>
    /\ resp' = FailureNotOk(500, DayGenericMessage)
    /\ pc' = "done"
    /\ calls' = Append(calls, "res.json")
    /\ UNCHANGED <<now, sites, orders, req, siteDoc, plan, agg, waiting>>

NextDay ==
    \/ DayValidate
    \/ DayResolveSite
    \/ DayResolveSiteThrows
    \/ DayOrders
    \/ DayOrdersThrows
    \/ DayWindow
    \/ DayWindowThrows

DayQuery(site, date, tz, extraDays) ==
    [site |-> site, date |-> date, tz |-> tz, extraDays |-> extraDays]

\* Time zones asked for: none, two zones, a zone name without a slash and a
\* name no zone has.
DayZones ==
    {<<>>, DEFAULT_TZ, TokyoTz, UtcTz,
     <<"M", "a", "r", "s", "/", "P", "h", "o", "b", "o", "s">>}

\* extraDays asked for: none, 0, 3, 20, -1, abc, 2x.
DayExtras ==
    {<<>>, <<"0">>, <<"3">>, <<"2", "0">>, <<"-", "1">>, <<"a", "b", "c">>, <<"2", "x">>}

\* Days asked for: the 23-hour day, the 25-hour day and a summer day.
DayDates == {Text(2024, 3, 10), Text(2024, 11, 3), Text(2024, 7, 15)}

DayQueries ==
    {DayQuery(SiteA.slug, Text(2024, 3, 10), z, x) : z \in DayZones, x \in DayExtras}
    \cup {DayQuery(SiteA.slug, d, z, <<"0">>) : d \in DayDates, z \in DayZones}
    \cup {DayQuery(s, d, <<>>, <<>>) :
             s \in {<<>>, <<"n", "o">>, SiteA._id},
             d \in {<<>>, Text(2024, 3, 10), <<"2", "0", "2", "4", "-", "3", "-", "9">>}}

\* Orders of 2024-03-10 in UTC, in Edmonton and in Tokyo, of the days after
\* and of another site.
DayOrdersDomain ==
    <<OrderAt(Instant(2024, 3, 9, 16)),
      OrderAt(Instant(2024, 3, 10, 3)),
      OrderAt(Instant(2024, 3, 10, 8)),
      OrderAt(Instant(2024, 3, 11, 6)),
      OrderAt(Instant(2024, 3, 14, 12)),
      [OrderAt(Instant(2024, 3, 10, 8)) EXCEPT !.site = SiteB._id]>>

InitDay ==
    /\ now = Instant(2024, 3, 12, 18)
    /\ sites = SiteStore
    /\ orders \in Stores(DayOrdersDomain)
    /\ req \in DayQueries
    /\ pc = "day_validate"
    /\ siteDoc = <<>>
    /\ plan = <<>>
    /\ agg = <<>>
    /\ resp = NoResponse
    /\ calls = <<>>
    /\ fault = <<>>
    /\ waiting = <<>>

SpecDay == InitDay /\ [][NextDay]_vars

\* The request was answered by getOrdersBySiteDay.
DayDone == pc = "done" /\ "extraDays" \in DOMAIN req

\* The store call of the request failed for a reason of its surroundings.
EnvironmentFault == fault # <<>> /\ fault[1] \in AggregateFaults \cup LookupFaults

\* A tz parameter is given and it is no identifier of a time zone.
InvalidTzRequest == req.tz # <<>> /\ req.tz \notin KnownZones

\* The tz parameter is one the handler takes: a zone identifier with a slash.
AcceptedTz(tz) == tz \in KnownZones /\ \E i \in DOMAIN tz : tz[i] = "/"

\* Positions of the orders of the resolved site created in the 1 + n local
\* days of America/Edmonton that begin with the requested date.
EdmontonDayOrders(n) ==
    LET z == DayOfText(req.date)
    IN  {i \in DOMAIN orders :
            /\ orders[i].site = siteDoc[1]._id
            /\ LocalMidnight(z) <= orders[i].createdAt
            /\ orders[i].createdAt < LocalMidnight(z + 1 + n)}

MaxDelay == 1

\* Mutant: the trailing window of getDashboardSeries, today included.
PlanRangeThroughToday(mode) ==
    [kind |-> "trailing", lookbackDays |-> IF mode = "week" THEN 6 ELSE 29]

\* Lines 107-119: the last 7 or 30 full days, ending yesterday.
PlanRangeTrailing(mode) ==
    [kind |-> "full_days", lookbackDays |-> IF mode = "week" THEN 7 ELSE 30]

\* startExpr / endExpr of the range handler when the store evaluates them
\* at instant t.
RangeStart(p, t) ==
    IF p.kind = "full_days"
    THEN DateAddDays(todayStartInEdmonton(t), 0 - p.lookbackDays)
    ELSE EvalStart(p, t)

RangeEnd(p, t) ==
    IF p.kind = "full_days" THEN todayStartInEdmonton(t) ELSE EvalEnd(p, t)

\* Lines 169-195: the two $match stages and { $sort: { createdAt: -1 } }.
RangeOrderResults(docs, siteId, p, t) ==
    LET hits == {i \in DOMAIN docs :
                    MatchOrder(docs[i], siteId, RangeStart(p, t), RangeEnd(p, t))}
    IN  {[k \in DOMAIN ix |-> docs[ix[k]]] :
            ix \in {q \in Orderings(hits) :
                      \A k \in 1..(Len(q) - 1) :
                          docs[q[k]].createdAt >= docs[q[k + 1]].createdAt}}

\* Lines 207-213: the projection of the first document of the collection,
\* or null for both ends.
RangeResolvedWindow(docs, p, t) ==
    IF docs = <<>> THEN [start |-> <<>>, end |-> <<>>]
    ELSE [start |-> <<RangeStart(p, t)>>, end |-> <<RangeEnd(p, t)>>]

RangeSuccessBody(site, mode, found, window) ==
    [ok     |-> TRUE,
     site   |-> [_id |-> site._id, slug |-> site.slug,
                 name |-> IF site.name # <<>> THEN site.name[1] ELSE site.slug],
     mode   |-> mode,
     tz     |-> CANADA_TZ,
     window |-> window,
     count  |-> Len(found),
     orders |-> [k \in DOMAIN found |-> NormalizeOrder(found[k])]]

\* Lines 86-101: the checks of site and mode.
RangeValidate ==
    /\ pc = "range_validate"
    /\ IF req.site = <<>>
       THEN /\ resp' = Failure(400, "site (slug) is required")
            /\ pc' = "done"
            /\ calls' = Append(calls, "res.json")
       ELSE IF req.mode \notin Modes
       THEN /\ resp' = Failure(400, "mode must be one of: week, month, custom")
            /\ pc' = "done"
            /\ calls' = Append(calls, "res.json")
       ELSE /\ pc' = "range_resolve"
            /\ calls' = Append(calls, "Site.findOne")
            /\ UNCHANGED resp
    /\ UNCHANGED <<now, sites, orders, req, siteDoc, plan, agg, fault, waiting>>

\* Lines 101-195: the lookup by slug returns; the window expressions are
\* built and the order query is started.
RangeResolveSite ==
    /\ pc = "range_resolve"
    /\ LET found == FindSiteBySlug(req.site)
       IN  IF found = <<>>
           THEN /\ resp' = Failure(404, "Site not found")
                /\ pc' = "done"
                /\ calls' = Append(calls, "res.json")
                /\ UNCHANGED <<siteDoc, plan>>
           ELSE IF req.mode \in {"week", "month"}
           THEN /\ siteDoc' = found
                /\ plan' = <<PlanRangeTrailing(req.mode)>>
                /\ pc' = "range_orders"
                /\ calls' = Append(calls, "Order.aggregate")
                /\ UNCHANGED resp
           ELSE IF ~IsYMD(req.start) \/ ~IsYMD(req.end)
           THEN /\ siteDoc' = found
                /\ resp' = Failure(400, "start and end (YYYY-MM-DD) are required for custom mode")
                /\ pc' = "done"
                /\ calls' = Append(calls, "res.json")
                /\ UNCHANGED plan
           ELSE /\ siteDoc' = found
                /\ plan' = <<PlanCustom(req.start, req.end)>>
                /\ pc' = "range_orders"
                /\ calls' = Append(calls, "Order.aggregate")
                /\ UNCHANGED resp
    /\ UNCHANGED <<now, sites, orders, req, agg, fault, waiting>>

\* The lookup rejects: the outer catch answers (lines 243-246).
RangeResolveSiteThrows ==
    /\ pc = "range_resolve"
    /\ \E cause \in LookupFaults : fault' = <<cause>>
    /\ resp' = FailureNotOk(500, DayGenericMessage)
    /\ pc' = "done"
    /\ calls' = Append(calls, "res.json")
    /\ UNCHANGED <<now, sites, orders, req, siteDoc, plan, agg, waiting>>

\* Lines 188-210: the order query, run at instant now, returns and the
\* window query is started; it runs up to MaxDelay hours later.
RangeOrders ==
    /\ pc = "range_orders"
    /\ \E found \in RangeOrderResults(orders, siteDoc[1]._id, plan[1], now) :
          agg' = <<[orders |-> found, at |-> now]>>
    /\ \E d \in 0..MaxDelay : now' = now + d
    /\ pc' = "range_window"
    /\ calls' = Append(calls, "Order.aggregate")
    /\ UNCHANGED <<sites, orders, req, siteDoc, plan, resp, fault, waiting>>

\* Lines 195-204: the order query rejects, whatever the cause.
RangeOrdersThrows ==
    /\ pc = "range_orders"
    /\ \E cause \in AggregateFaults : fault' = <<cause>>
    /\ resp' = FailureNotOk(500, CapabilityMessage)
    /\ pc' = "done"
    /\ calls' = Append(calls, "res.json")
    /\ UNCHANGED <<now, sites, orders, req, siteDoc, plan, agg, waiting>>

\* Lines 207-242: the window query, run at instant now, returns and the
\* response is sent.
RangeWindow ==
    /\ pc = "range_window"
    /\ resp' = [status |-> 200,
                body   |-> RangeSuccessBody(siteDoc[1], req.mode, agg[1].orders,
                               RangeResolvedWindow(orders, plan[1], now))]
    /\ pc' = "done"
    /\ calls' = Append(calls, "res.json")
    /\ UNCHANGED <<now, sites, orders, req, siteDoc, plan, agg, fault, waiting>>

\* The window query rejects: the outer catch answers (lines 243-246).
RangeWindowThrows ==
    /\ pc = "range_window"
    /\ \E cause \in LookupFaults : fault' = <<cause>>
    /\ resp' = FailureNotOk(500, DayGenericMessage)
    /\ pc' = "done"
    /\ calls' = Append(calls, "res.json")
    /\ UNCHANGED <<now, sites, orders, req, siteDoc, plan, agg, waiting>>

NextRange ==
    \/ RangeValidate
    \/ RangeResolveSite
    \/ RangeResolveSiteThrows
    \/ RangeOrders
    \/ RangeOrdersThrows
    \/ RangeWindow
    \/ RangeWindowThrows

\* Requests are served at noon of 2024-03-12 and in the last hour of
\* 2024-03-11, both in local time.
RangeNows == {Instant(2024, 3, 12, 18), Instant(2024, 3, 12, 5)}

RangeQueries ==
    {Query(SiteA.slug, m, <<>>, <<>>) : m \in {"week", "month", "custom", "year"}}
    \cup {Query(s, "week", <<>>, <<>>) : s \in {<<>>, <<"n", "o">>, SiteA._id}}
    \cup {Query(SiteA.slug, "custom", Text(2024, 3, 9), Text(2024, 3, 10)),
          Query(SiteA.slug, "custom", Text(2024, 3, 5), Text(2024, 3, 12)),
          Query(SiteA.slug, "custom", Text(2024, 3, 9), Text(2024, 5, 10))}

\* Orders of eight days ago, of a week ago, of three days ago and of today
\* (as seen at noon of 2024-03-12), one awaiting payment and one of
\* another site.
RangeOrdersDomain ==
    <<OrderAt(Instant(2024, 3, 4, 12)),
      OrderAt(Instant(2024, 3, 5, 12)),
      OrderAt(Instant(2024, 3, 9, 18)),
      OrderAt(Instant(2024, 3, 12, 12)),
      [OrderAt(Instant(2024, 3, 9, 18)) EXCEPT !.status = AWAITING],
      [OrderAt(Instant(2024, 3, 9, 18)) EXCEPT !.site = SiteB._id]>>

InitRange ==
    /\ now \in RangeNows
    /\ sites = SiteStore
    /\ orders \in Stores(RangeOrdersDomain)
    /\ req \in RangeQueries
    /\ pc = "range_validate"
    /\ siteDoc = <<>>
    /\ plan = <<>>
    /\ agg = <<>>
    /\ resp = NoResponse
    /\ calls = <<>>
    /\ fault = <<>>
    /\ waiting = <<>>

SpecRange == InitRange /\ [][NextRange]_vars

RangeSuccess == pc = "done" /\ resp.status = 200 /\ "count" \in DOMAIN resp.body

\* The window getDashboardSeries plans for the request.
DashboardPlan ==
    IF req.mode \in {"week", "month"} THEN PlanTrailing(req.mode)
    ELSE PlanCustom(req.start, req.end)

\* Positions of the orders of the resolved site created in [s, e) that are
\* not awaiting payment.
NotAwaitingIn(s, e) ==
    {i \in DOMAIN orders :
        /\ orders[i].site = siteDoc[1]._id
        /\ s <= orders[i].createdAt
        /\ orders[i].createdAt < e
        /\ ~IsAwaitingPayment(orders[i])}

CoreOf(o) == [site |-> o.site, createdAt |-> o.createdAt, status |-> o.status]

\* The sequence returned holds the orders at the positions S, each once.
ReturnsExactly(returned, S) ==
    /\ Len(returned) = Cardinality(S)
    /\ \A k \in DOMAIN returned :
          Cardinality({j \in DOMAIN returned : CoreOf(returned[j]) = CoreOf(returned[k])})
              = Cardinality({i \in S : CoreOf(orders[i]) = CoreOf(returned[k])})

RangeWindowOn(z) ==
    IF req.mode = "week" THEN [start |-> LocalMidnight(z - 7), end |-> LocalMidnight(z)]
    ELSE IF req.mode = "month" THEN [start |-> LocalMidnight(z - 30), end |-> LocalMidnight(z)]
    ELSE LET s == DayOfText(req.start)
             e == DayOfText(req.end)
         IN  [start |-> LocalMidnight(s),
              end   |-> LocalMidnight((IF e - s + 1 > 62 THEN s + 61 ELSE e) + 1)]

DaySuccess == DayDone /\ resp.status = 200

\* The instant at which calendar day z begins in the zone tz.
ZoneMidnight(tz, z) ==
    IF tz = DEFAULT_TZ THEN LocalMidnight(z)
    ELSE IF tz = TokyoTz THEN z * HoursPerDay - 9
    ELSE z * HoursPerDay

\* The requested day, from its first instant to the first instant of the
\* day after it, in the zone the response reports.
SingleDayWindow ==
    [start |-> <<ZoneMidnight(resp.body.tz, DayOfText(req.date))>>,
     end   |-> <<ZoneMidnight(resp.body.tz, DayOfText(req.date) + 1)>>]

\* C22: the window of a getOrdersBySiteDay response is the single requested
\* day, [start, start + 1 local calendar day), whatever extraDays is: the
\* look-ahead widens the query only.
C22_WindowIsTheRequestedDay ==
    DaySuccess => resp.body.window = SingleDayWindow

\* The same, for the responses given while the order collection holds a
\* document.
C22_WindowWhenCollectionNotEmpty ==
    (DaySuccess /\ orders # <<>>) => resp.body.window = SingleDayWindow

\* C29: window.start is the local midnight of the requested date in the
\* timezone of the tz field and window.end the local midnight of the day
\* after, 23, 24 or 25 hours later, for every content of the order store,
\* the empty collection included.
C29_WindowAtLocalMidnights ==
    DaySuccess =>
        LET z == DayOfText(req.date)
            w == resp.body.window
        IN  /\ w.start # <<>> /\ w.end # <<>>
            /\ w.start[1] = ZoneMidnight(resp.body.tz, z)
            /\ w.end[1] = ZoneMidnight(resp.body.tz, z + 1)
            /\ w.end[1] - w.start[1] \in {23, 24, 25}

\* What the code answers over an empty order collection: the day of the
\* requested date in UTC, 24 hours long, whatever the tz field says.
C29_UtcDayOverEmptyCollection ==
    (DaySuccess /\ orders = <<>>) =>
        resp.body.window = [start |-> <<DayOfText(req.date) * HoursPerDay>>,
                            end   |-> <<(DayOfText(req.date) + 1) * HoursPerDay>>]

\* A text that writes an integer: digits, after a sign or not.
IsIntegerText(s) ==
    /\ s # <<>>
    /\ LET body == IF s[1] \in {"-", "+"} THEN Tail(s) ELSE s
       IN  body # <<>> /\ \A i \in DOMAIN body : IsDigit(body[i])

IntegerOfText(s) ==
    IF s[1] = "-" THEN 0 - Number(Tail(s))
    ELSE IF s[1] = "+" THEN Number(Tail(s))
    ELSE Number(s)

ClampedInto(n, lo, hi) == IF n < lo THEN lo ELSE IF n > hi THEN hi ELSE n

\* Positions of the orders of the resolved site created in the 1 + n
\* calendar days, of the zone the response reports, that begin with the
\* requested date.
DayOrdersWithin(n) ==
    LET z == DayOfText(req.date)
    IN  {i \in DOMAIN orders :
            /\ orders[i].site = siteDoc[1]._id
            /\ ZoneMidnight(resp.body.tz, z) <= orders[i].createdAt
            /\ orders[i].createdAt < ZoneMidnight(resp.body.tz, z + 1 + n)}

\* The response returns the orders of the look-ahead of n days, newest
\* first, and counts them.
DayReturns(n) ==
    /\ ReturnsExactly(resp.body.orders, DayOrdersWithin(n))
    /\ \A k \in 1..(Len(resp.body.orders) - 1) :
          resp.body.orders[k].createdAt >= resp.body.orders[k + 1].createdAt
    /\ resp.body.count = Len(resp.body.orders)

\* C30: the look-ahead N is the integer value of extraDays clamped into
\* 0..14, or 7 when extraDays is absent or not an integer; the orders
\* returned are those of the site created in [start, start + (1 + N) local
\* days), newest first, and count is their number.
C30_LookaheadOrders ==
    DaySuccess =>
        DayReturns(IF IsIntegerText(req.extraDays)
                   THEN ClampedInto(IntegerOfText(req.extraDays), 0, 14)
                   ELSE 7)

\* What the code does: N is the integer that the leading sign and digits of
\* extraDays write, clamped into 0..14, and 7 when there is none.
C30_LeadingIntegerLookahead ==
    DaySuccess =>
        /\ plan[1].FUTURE_DAYS \in 0..14
        /\ DayReturns(plan[1].FUTURE_DAYS)
        /\ IsIntegerText(req.extraDays) =>
              plan[1].FUTURE_DAYS = ClampedInto(IntegerOfText(req.extraDays), 0, 14)
        /\ (req.extraDays = <<>> \/ ~(IsDigit(req.extraDays[1]) \/ req.extraDays[1] \in {"-", "+"})) =>
              plan[1].FUTURE_DAYS = 7

\* Scenario: the items of the orders vary: none, one, the same name twice,
\* two names, another name, an item without a name.
ItemLists ==
    << <<>>,
       << <<"Pizza">> >>,
       << <<"Pizza">>, <<"Pizza">> >>,
       << <<"Pizza">>, <<"Cola">> >>,
       << <<"Wings">> >>,
       << <<>> >> >>

ItemTimes == <<Instant(2024, 3, 9, 18), Instant(2024, 3, 10, 18)>>

ItemOrders ==
    [k \in 1..(Len(ItemLists) * Len(ItemTimes)) |->
        [OrderAt(ItemTimes[((k - 1) % Len(ItemTimes)) + 1])
            EXCEPT !.items = ItemLists[((k - 1) \div Len(ItemTimes)) + 1]]]

\* One more order, outside the windows asked for.
ItemOrdersDomain == ItemOrders \o <<[OrderAt(Instant(2024, 2, 1, 18)) EXCEPT !.items = << <<"Salad">> >>]>>

InitItems == InitWith(AggNows, Stores(ItemOrdersDomain), AggQueries)

SpecItems == InitItems /\ [][Next]_vars

\* The name of an item: the empty text when it has none.
NameOfItem(it) == IF it = <<>> THEN "" ELSE it[1]

\* The names that occur in the items of the orders at the positions S.
NamesOccurringIn(S) ==
    UNION {{NameOfItem(orders[i].items[k]) : k \in DOMAIN orders[i].items} : i \in S}

\* C23: totals.menuUnique is the number of distinct item names (that of an
\* item without a name being the empty text) that occur in the items of the
\* matching orders of the whole window: a name counts once, however many
\* orders or items carry it, and an order without items adds nothing.
C23_MenuUnique ==
    Success =>
        /\ resp.body.totals.menuUnique = Cardinality(NamesOccurringIn(Counted))
        /\ resp.body.totals.menuUnique =
              Cardinality(NamesOccurringIn({i \in Counted : orders[i].items # <<>>}))

\* Two matching orders, Pizza twice in one, Pizza and Cola in the other:
\* two names are counted.
C23_Witness ==
    /\ Success
    /\ Cardinality(Counted) = 2
    /\ \E i, j \in Counted :
          /\ orders[i].items = << <<"Pizza">>, <<"Pizza">> >>
          /\ orders[j].items = << <<"Pizza">>, <<"Cola">> >>
    /\ resp.body.totals.menuUnique = 2

\* A matching order with a name and one without items: one name is counted.
C23_WitnessNoItems ==
    /\ Success
    /\ Cardinality(Counted) = 2
    /\ \E i, j \in Counted :
          /\ orders[i].items = << <<"Wings">> >>
          /\ orders[j].items = <<>>
    /\ resp.body.totals.menuUnique = 1

\* Scenario: the phone and the email of the orders vary, on two local days.
IdentityContacts ==
    <<[phone |-> <<"+14035550101">>, userEmail |-> <<"ann@example.com">>],
      [phone |-> <<"+14035550101">>, userEmail |-> <<"bob@example.com">>],
      [phone |-> <<"+14035550199">>, userEmail |-> <<"ann@example.com">>],
      [phone |-> <<>>, userEmail |-> <<"ann@example.com">>],
      [phone |-> <<>>, userEmail |-> <<"bob@example.com">>],
      [phone |-> <<"+14035550101">>, userEmail |-> <<>>],
      [phone |-> <<>>, userEmail |-> <<>>]>>

IdentityTimes == <<Instant(2024, 3, 9, 18), Instant(2024, 3, 10, 18)>>

IdentityOrders ==
    [k \in 1..(Len(IdentityContacts) * Len(IdentityTimes)) |->
        LET c == IdentityContacts[((k - 1) \div Len(IdentityTimes)) + 1]
        IN  [OrderAt(IdentityTimes[((k - 1) % Len(IdentityTimes)) + 1])
                EXCEPT !.phone = c.phone, !.userEmail = c.userEmail]]

InitIdentity == InitWith(AggNows, Stores(IdentityOrders), AggQueries)

SpecIdentity == InitIdentity /\ [][Next]_vars

\* C24: the identity of an order's customer is its dropoff phone when it has
\* one and its email otherwise (an order with neither has none and counts
\* for no customer).  Two matching orders with the same phone are one
\* customer even if their emails differ; two with an email and no phone are
\* one customer exactly when their emails are equal.  The counts of the
\* days and the count of the window are taken over the same identities.
C24_CustomerIdentity ==
    Success =>
        LET b == resp.body
        IN  /\ b.totals.customersUnique = Cardinality(IdentitiesOf(Counted))
            /\ \A i \in DOMAIN b.customers :
                  b.customers[i] = Cardinality(IdentitiesOf(CountedOn(BucketDay(b, i))))
            /\ \A i, j \in Counted :
                  (i # j /\ Counted = {i, j}) =>
                      /\ (orders[i].phone # <<>> /\ orders[i].phone = orders[j].phone) =>
                            b.totals.customersUnique = 1
                      /\ (/\ orders[i].phone = <<>> /\ orders[j].phone = <<>>
                          /\ orders[i].userEmail # <<>> /\ orders[j].userEmail # <<>>) =>
                            (b.totals.customersUnique = 1 <=>
                                 orders[i].userEmail = orders[j].userEmail)
                      /\ (/\ LocalDay(orders[i].createdAt) = LocalDay(orders[j].createdAt)
                          /\ HasIdentity(orders[i]) /\ HasIdentity(orders[j])) =>
                            (SumInts(b.customers) = 1 <=>
                                 Identity(orders[i]) = Identity(orders[j]))

\* Two matching orders of one day with the same phone and different emails:
\* one customer that day and one in the window.
C24_Witness ==
    /\ Success
    /\ Len(orders) = 2
    /\ Counted = {1, 2}
    /\ orders[1].phone = <<"+14035550101">>
    /\ orders[2].phone = <<"+14035550101">>
    /\ orders[1].userEmail # <<>>
    /\ orders[2].userEmail # <<>>
    /\ orders[1].userEmail # orders[2].userEmail
    /\ LocalDay(orders[1].createdAt) = LocalDay(orders[2].createdAt)
    /\ resp.body.totals.customersUnique = 1
    /\ SumInts(resp.body.customers) = 1

\* Two matching orders without a phone and with different emails: two
\* customers.
C24_WitnessEmails ==
    /\ Success
    /\ Counted = {1, 2}
    /\ orders[1].phone = <<>> /\ orders[2].phone = <<>>
    /\ orders[1].userEmail = <<"ann@example.com">>
    /\ orders[2].userEmail = <<"bob@example.com">>
    /\ resp.body.totals.customersUnique = 2

\* The orders returned lie in the window echoed.
ReturnedInsideEchoedWindow ==
    LET w == resp.body.window
    IN  \A k \in DOMAIN resp.body.orders :
            /\ w.start[1] <= resp.body.orders[k].createdAt
            /\ resp.body.orders[k].createdAt < w.end[1]

\* C28: on every successful week or month response of getOrdersBySiteRange
\* the ends of the window echoed are not null, and every order returned has
\* its createdAt in [window.start, window.end), also when local midnight
\* passes between the order query and the window query and when the
\* collection is empty.
C28_EchoedWindowIsFilterWindow ==
    (RangeSuccess /\ req.mode \in {"week", "month"}) =>
        /\ resp.body.window.start # <<>>
        /\ resp.body.window.end # <<>>
        /\ ReturnedInsideEchoedWindow

\* What the code gives: the window echoed is the filter window when the two
\* queries run on the same local day over a collection that holds a document.
C28_EchoedWindowSameDay ==
    (/\ RangeSuccess
     /\ req.mode \in {"week", "month"}
     /\ orders # <<>>
     /\ LocalDay(now) = LocalDay(agg[1].at)) =>
        /\ resp.body.window.start # <<>>
        /\ resp.body.window.end # <<>>
        /\ ReturnedInsideEchoedWindow

\* What the code gives: the window query evaluates $$NOW anew, so over a
\* collection that holds a document the window echoed is the one of the
\* local day on which the window query runs.
C28_EchoedWindowOfSecondQuery ==
    (RangeSuccess /\ req.mode \in {"week", "month"}) =>
        LET w == RangeWindowOn(LocalDay(now))
        IN  resp.body.window =
                IF orders = <<>> THEN [start |-> <<>>, end |-> <<>>]
                ELSE [start |-> <<w.start>>, end |-> <<w.end>>]

\* Local midnight passed between the two queries: an order returned lies
\* outside the window echoed.
C28_MidnightBetweenQueries ==
    /\ RangeSuccess
    /\ req.mode = "week"
    /\ orders # <<>>
    /\ LocalDay(now) = LocalDay(agg[1].at) + 1
    /\ resp.body.window.start # <<>>
    /\ ~ReturnedInsideEchoedWindow

(***************************************************************************)
(* getDashboardSeries while the order collection is written.               *)
(***************************************************************************)
Processing == <<"p", "r", "o", "c", "e", "s", "s", "i", "n", "g">>

\* Statuses updateOrderStatus accepts (three of ALLOWED_STATUSES).
WrittenStatuses == {New, AWAITING, Processing}

\* updateOrderStatus: order.status = nextStatus; order.save().
updateOrderStatus ==
    /\ pc # "done"
    /\ \E i \in DOMAIN orders, s \in WrittenStatuses :
          orders' = [orders EXCEPT ![i].status = s]
    /\ UNCHANGED <<now, sites, req, pc, siteDoc, plan, agg, resp, calls, fault, waiting>>

\* The documents the other application inserts while a request is served:
\* createdAt is the instant of the insert (timestamps: true).
InsertedOrders ==
    {[OrderAt(now) EXCEPT !.status = s, !.totalCents = c] :
        s \in {New, AWAITING}, c \in {<<599>>, <<>>}}

InsertOrder ==
    /\ pc # "done"
    /\ Len(orders) < MaxOrders
    /\ \E o \in InsertedOrders : orders' = Append(orders, o)
    /\ UNCHANGED <<now, sites, req, pc, siteDoc, plan, agg, resp, calls, fault, waiting>>

\* The request's steps interleaved with the writes.  The pipeline is one
\* query whose $facet feeds its three sub-pipelines the same matched
\* documents, so Aggregate reads one content of the collection.
NextWrites ==
    \/ Next
    \/ updateOrderStatus
    \/ InsertOrder

WriteTimes == <<Instant(2024, 2, 1, 18), Instant(2024, 3, 9, 18), Instant(2024, 3, 10, 18)>>

WriteAmounts == <<<<1050>>, <<599>>>>

WriteStatuses == <<New, AWAITING>>

WriteOrders ==
    [k \in 1..(Len(WriteTimes) * Len(WriteAmounts) * Len(WriteStatuses)) |->
        [OrderAt(WriteTimes[((k - 1) % Len(WriteTimes)) + 1])
            EXCEPT !.totalCents =
                       WriteAmounts[(((k - 1) \div Len(WriteTimes)) % Len(WriteAmounts)) + 1],
                   !.status =
                       WriteStatuses[((k - 1) \div (Len(WriteTimes) * Len(WriteAmounts))) + 1]]]

WriteQueries ==
    AggQueries \cup
    {Query(SiteA.slug, "month", <<>>, <<>>),
     Query(SiteA.slug, "custom", Text(2024, 3, 10), Text(2024, 3, 12))}

InitWrites == InitWith(AggNows, Stores(WriteOrders), WriteQueries)

SpecWrites == InitWrites /\ [][NextWrites]_vars

RECURSIVE SumRevenueCents(_)
SumRevenueCents(q) == IF q = <<>> THEN 0 ELSE InCents(q[1]) + SumRevenueCents(Tail(q))

\* C27: in every successful getDashboardSeries response the sum of orders[]
\* over the buckets equals totals.orders and the sum of revenue[] in cents
\* equals totals.revenue in cents, for every window and store content, also
\* when orders are inserted or change status while the request is served.
C27_SeriesSumToTotals ==
    Success =>
        /\ SumInts(resp.body.orders) = resp.body.totals.orders
        /\ SumRevenueCents(resp.body.revenue) = InCents(resp.body.totals.revenue)

\* A response over two days' orders, served while the collection changed:
\* an order awaiting payment was moved to processing before the aggregation.
C27_Witness ==
    /\ Success
    /\ Len(orders) = 2
    /\ orders[1].createdAt = Instant(2024, 3, 9, 18)
    /\ orders[2].createdAt = Instant(2024, 3, 10, 18)
    /\ orders[1].status = Processing
    /\ resp.body.totals.orders = 2
    /\ SumInts(resp.body.orders) = 2
    /\ Len(resp.body.orders) >= 2
    /\ InCents(resp.body.totals.revenue) = 1649

\* An order inserted while the request was served, before the aggregation
\* ran, is in the series and in the totals.
C27_WitnessInsertAfter ==
    /\ Success
    /\ Len(orders) = 2
    /\ orders[2].createdAt = now
    /\ ~IsAwaitingPayment(orders[2])
    /\ orders[1].createdAt = Instant(2024, 3, 10, 18)
    /\ ~IsAwaitingPayment(orders[1])
    /\ req.mode = "week"
    /\ resp.body.totals.orders = 2
    /\ SumInts(resp.body.orders) = 2

(***************************************************************************)
(* A sequence of requests to the three reporting routes.                   *)
(***************************************************************************)
MaxRequests == 2

\* router.get('/dashboard'), ('/by-site/range'), ('/by-site/day'): the first
\* step of the handler and the query of a request.  Each route gets a
\* request that can succeed, one without a site (400) and one for a site
\* nobody has (404).
Requests ==
    {<<"validate", q>> :
        q \in {Query(SiteA.slug, "week", <<>>, <<>>),
               Query(<<>>, "week", <<>>, <<>>),
               Query(<<"n", "o">>, "week", <<>>, <<>>)}}
    \cup {<<"range_validate", q>> :
        q \in {Query(SiteA.slug, "month", <<>>, <<>>),
               Query(<<>>, "week", <<>>, <<>>),
               Query(<<"n", "o">>, "week", <<>>, <<>>)}}
    \cup {<<"day_validate", q>> :
        q \in {DayQuery(SiteA.slug, Text(2024, 3, 10), <<>>, <<"3">>),
               DayQuery(<<>>, Text(2024, 3, 10), <<>>, <<>>),
               DayQuery(<<"n", "o">>, Text(2024, 3, 10), <<>>, <<>>)}}

\* An order of the day asked for, one of ten days before and one awaiting
\* payment.
AllOrdersDomain ==
    <<OrderAt(Instant(2024, 3, 1, 18)),
      OrderAt(Instant(2024, 3, 10, 18)),
      [OrderAt(Instant(2024, 3, 11, 18)) EXCEPT !.status = AWAITING]>>

\* Number of requests answered so far.
Answered == CountOf(calls, "res.json")

\* The next request arrives once the one before is answered.
NewRequest ==
    /\ pc = "done"
    /\ Answered < MaxRequests
    /\ \E r \in Requests : pc' = r[1] /\ req' = r[2]
    /\ siteDoc' = <<>>
    /\ plan' = <<>>
    /\ agg' = <<>>
    /\ resp' = NoResponse
    /\ fault' = <<>>
    /\ UNCHANGED <<now, sites, orders, calls, waiting>>

NextAll ==
    \/ Next
    \/ NextRange
    \/ NextDay
    \/ NewRequest

InitAll ==
    /\ now = Instant(2024, 3, 12, 18)
    /\ sites = SiteStore
    /\ orders \in Stores(AllOrdersDomain)
    /\ \E r \in Requests : pc = r[1] /\ req = r[2]
    /\ siteDoc = <<>>
    /\ plan = <<>>
    /\ agg = <<>>
    /\ resp = NoResponse
    /\ calls = <<>>
    /\ fault = <<>>
    /\ waiting = <<>>

SpecAll == InitAll /\ [][NextAll]_vars

\* C25: getDashboardSeries, getOrdersBySiteRange and getOrdersBySiteDay are
\* read-only: no step of any sequence of such requests, whatever their
\* outcomes (200, 400, 404, 500), changes the contents of the site store or
\* of the order store.
C25_ReadOnly == [][sites' = sites /\ orders' = orders]_vars

\* The same, as a property of the states: the stores hold what the scenario
\* put into them.
C25_StoresAsCreated == sites = SiteStore /\ orders \in Stores(AllOrdersDomain)

\* MaxRequests requests were answered over a store that holds orders, the
\* last of them with a success.
C25_Witness ==
    /\ pc = "done"
    /\ Answered = MaxRequests
    /\ orders # <<>>
    /\ resp.status = 200

\* The last of the requests answered was rejected or failed.
C25_WitnessRejected ==
    /\ pc = "done"
    /\ Answered = MaxRequests
    /\ orders # <<>>
    /\ resp.status \in {400, 404, 500}

(***************************************************************************)
(* Concurrent getDashboardSeries requests.  The handler is an async        *)
(* function: its locals (siteDoc, startExpr, endExpr, agg, ...) belong to  *)
(* one call, and another call may run whenever this one awaits.            *)
(***************************************************************************)
MaxWaiting == 1

\* The locals of the request being served.
Locals ==
    [req |-> req, pc |-> pc, siteDoc |-> siteDoc, plan |-> plan, agg |-> agg,
     resp |-> resp, calls |-> calls, fault |-> fault]

\* The locals of a request that has not started.
Fresh(q) ==
    [req |-> q, pc |-> "validate", siteDoc |-> <<>>, plan |-> <<>>, agg |-> <<>>,
     resp |-> NoResponse, calls |-> <<>>, fault |-> <<>>]

\* The event loop resumes another request in flight.
Switch ==
    /\ \E i \in DOMAIN waiting :
          /\ req' = waiting[i].req
          /\ pc' = waiting[i].pc
          /\ siteDoc' = waiting[i].siteDoc
          /\ plan' = waiting[i].plan
          /\ agg' = waiting[i].agg
          /\ resp' = waiting[i].resp
          /\ calls' = waiting[i].calls
          /\ fault' = waiting[i].fault
          /\ waiting' = [waiting EXCEPT ![i] = Locals]
    /\ UNCHANGED <<now, sites, orders>>

NextConcurrent ==
    \/ Next
    \/ Switch

\* A week and a custom window of one site, a request without a site and
\* one for a site nobody has.
ConcurrentQueries ==
    {Query(SiteA.slug, "week", <<>>, <<>>),
     Query(SiteA.slug, "custom", Text(2024, 3, 9), Text(2024, 3, 10)),
     Query(<<>>, "week", <<>>, <<>>),
     Query(<<"n", "o">>, "week", <<>>, <<>>)}

ConcurrentOrders ==
    <<OrderAt(Instant(2024, 3, 9, 18)), OrderAt(Instant(2024, 3, 11, 18))>>

InitConcurrent ==
    /\ now = Instant(2024, 3, 12, 18)
    /\ sites = SiteStore
    /\ orders \in Stores(ConcurrentOrders)
    /\ req \in ConcurrentQueries
    /\ pc = "validate"
    /\ siteDoc = <<>>
    /\ plan = <<>>
    /\ agg = <<>>
    /\ resp = NoResponse
    /\ calls = <<>>
    /\ fault = <<>>
    /\ \E n \in 1..MaxWaiting :
          waiting \in [1..n -> {Fresh(q) : q \in ConcurrentQueries}]

SpecConcurrent == InitConcurrent /\ [][NextConcurrent]_vars

\* Every request in flight or answered.
AllRequests == {Locals} \cup Range(waiting)

\* The responses the aggregation step gives a request served alone over the
\* store at this instant: the success, or the 500 of its own fault.
SoloAggregated(found, p, mode, f) ==
    IF f = <<>>
    THEN {[status |-> 200, body |-> SuccessBody(found[1], mode, a)] :
             a \in AggregateResults(orders, found[1]._id, p, now)}
    ELSE {FailureNotOk(500, GenericMessage), FailureNotOk(500, CapabilityMessage)}

\* The responses a request with query q gets when it is served alone over
\* the store at this instant and f is the fault it meets (<<>>: none).
SoloResponses(q, f) ==
    IF q.site = <<>>
    THEN {Failure(400, "site is required (slug or ObjectId)")}
    ELSE IF q.mode \notin Modes
    THEN {Failure(400, "mode must be one of: week, month, custom")}
    ELSE LET found == IF isValidObjectIdString(q.site)
                      THEN FindSiteById(ObjectId(q.site))
                      ELSE FindSiteBySlug(q.site)
         IN  IF found = <<>>
             THEN IF f # <<>> THEN {FailureNotOk(500, GenericMessage)}
                  ELSE {Failure(404, IF isValidObjectIdString(q.site)
                                     THEN "Site not found for provided ObjectId"
                                     ELSE "Site not found for provided slug")}
             ELSE IF q.mode \in {"week", "month"}
             THEN SoloAggregated(found, PlanTrailing(q.mode), q.mode, f)
             ELSE IF ~IsYMD(q.start) \/ ~IsYMD(q.end)
             THEN IF f # <<>> THEN {FailureNotOk(500, GenericMessage)}
                  ELSE {Failure(400, "start and end (YYYY-MM-DD) are required for custom mode")}
             ELSE SoloAggregated(found, PlanCustom(q.start, q.end), q.mode, f)

\* C26: in every interleaving of concurrent getDashboardSeries requests
\* over an unchanged store, each request is answered once, with the
\* response it would get if served alone at the same instant, whatever the
\* other requests do; an aggregation is started at most once per request,
\* and one that fails is answered with one 500 and not started again.
C26_RequestsIndependent ==
    \A c \in AllRequests :
        /\ CountOf(c.calls, "Order.aggregate") <= 1
        /\ c.pc # "done" => (c.resp = NoResponse /\ CountOf(c.calls, "res.json") = 0)
        /\ c.pc = "done" =>
              /\ c.resp \in SoloResponses(c.req, c.fault)
              /\ CountOf(c.calls, "res.json") = 1
              /\ c.calls[Len(c.calls)] = "res.json"
              /\ (c.resp.status = 500 /\ c.resp.body.error = CapabilityMessage) =>
                    /\ c.fault # <<>>
                    /\ CountOf(c.calls, "Order.aggregate") = 1

\* A week request was answered while a custom request of the same site,
\* started before that answer, stood at its own aggregation with its own
\* window; the week's response counts the orders of the week.
C26_Witness ==
    /\ pc = "done"
    /\ Len(waiting) >= 1
    /\ waiting[1].pc = "aggregate"
    /\ waiting[1].plan # <<>>
    /\ req.mode = "week"
    /\ waiting[1].req.mode = "custom"
    /\ plan # waiting[1].plan
    /\ resp.status = 200
    /\ resp.body.totals.orders = 2

\* Both were answered, each with the series of its own window.
C26_WitnessBothAnswered ==
    /\ pc = "done"
    /\ Len(waiting) >= 1
    /\ waiting[1].pc = "done"
    /\ req.mode = "week"
    /\ waiting[1].req.mode = "custom"
    /\ resp.status = 200
    /\ waiting[1].resp.status = 200
    /\ resp.body.totals.orders = 2
    /\ waiting[1].resp.body.totals.orders = 1

\* The aggregation of one request failed and was answered with a 500 while
\* the same request made concurrently succeeded.
C26_WitnessFailedOnce ==
    /\ pc = "done"
    /\ Len(waiting) >= 1
    /\ waiting[1].pc = "done"
    /\ waiting[1].req = req
    /\ resp.status = 500
    /\ resp.body.error = CapabilityMessage
    /\ CountOf(calls, "Order.aggregate") = 1
    /\ waiting[1].resp.status = 200

====
